---- MODULE Spec2Model ----
(***************************************************************************)
(* Model of the thulp skill execution engine                               *)
(* (crates/thulp-skills): DefaultSkillExecutor::execute and the retry,     *)
(* timeout, hook and context machinery it drives.                          *)
(*                                                                         *)
(* Time is counted in milliseconds.  One execute() call is one logical     *)
(* thread; its suspension points are awaiting the Transport call and       *)
(* sleeping between attempts, and both are raced against the skill-level   *)
(* deadline.                                                               *)
(***************************************************************************)
EXTENDS FiniteSets, Integers, Sequences, TLC

\* ------------------------------------------------------------------ bounds
\* longest skill explored
MaxSteps == 2
\* largest max_retries explored (global configuration)
MaxRetries == 1

\* ------------------------------------------------------------- Option<T>
None == [some |-> FALSE]
Some(x) == [some |-> TRUE, v |-> x]

\* ------------------------------------------------------ serde_json::Value
JNull == [t |-> "null"]
\* each variant keeps its payload in a field of its own
JBool(b) == [t |-> "bool", b |-> b]
JNum(n) == [t |-> "num", n |-> n]
JStr(s) == [t |-> "str", s |-> s]
JArr(a) == [t |-> "arr", a |-> a]
\* an object is its (key-sorted) sequence of <<key, value>> entries
JObj(o) == [t |-> "obj", o |-> o]

\* ---------------------------------------------------------------- strings
Digits == "0123456789"

RECURSIVE IntToStr(_)
\* usize / u64 Display
IntToStr(n) ==
    IF n < 10 THEN SubSeq(Digits, n + 1, n + 1)
    ELSE IntToStr(n \div 10) \o SubSeq(Digits, (n % 10) + 1, (n % 10) + 1)

UpperChars == "ABCDEFGHIJKLMNOPQRSTUVWXYZ"
LowerChars == "abcdefghijklmnopqrstuvwxyz"

\* the lowercase letter of each uppercase letter
LowerTable ==
    [c \in {SubSeq(UpperChars, i, i) : i \in 1..Len(UpperChars)} |->
        LET i == CHOOSE j \in 1..Len(UpperChars) : SubSeq(UpperChars, j, j) = c
        IN SubSeq(LowerChars, i, i)]

LowerChar(c) == IF c \in DOMAIN LowerTable THEN LowerTable[c] ELSE c

RECURSIVE to_lowercase(_)
to_lowercase(s) ==
    IF Len(s) = 0 THEN ""
    ELSE LowerChar(SubSeq(s, 1, 1)) \o to_lowercase(SubSeq(s, 2, Len(s)))

\* str::contains
Contains(s, w) ==
    \E i \in 1..(Len(s) - Len(w) + 1) : SubSeq(s, i, i + Len(w) - 1) = w

\* ------------------------------------------------------------- durations
\* Duration::from_secs, in milliseconds
MsPerSec == 1000
from_secs(s) == s * MsPerSec

RECURSIVE TrimZeros(_)
TrimZeros(s) ==
    IF Len(s) > 0 /\ SubSeq(s, Len(s), Len(s)) = "0"
    THEN TrimZeros(SubSeq(s, 1, Len(s) - 1))
    ELSE s

Pad3(n) ==
    IF n < 10 THEN "00" \o IntToStr(n)
    ELSE IF n < 100 THEN "0" \o IntToStr(n)
    ELSE IntToStr(n)

\* Debug formatting of a Duration holding a whole number of milliseconds
DurationDebug(ms) ==
    IF ms >= MsPerSec
    THEN IF ms % MsPerSec = 0
         THEN IntToStr(ms \div MsPerSec) \o "s"
         ELSE IntToStr(ms \div MsPerSec) \o "." \o TrimZeros(Pad3(ms % MsPerSec)) \o "s"
    ELSE IntToStr(ms) \o "ms"

\* ------------------------------------------------- thulp_core::Error
ExecutionFailed(m) == [variant |-> "ExecutionFailed", msg |-> m]
ToolNotFound(m) == [variant |-> "ToolNotFound", msg |-> m]

\* Display of thulp_core::Error
CoreErrorDisplay(e) ==
    IF e.variant = "ExecutionFailed" THEN "tool execution failed: " \o e.msg
    ELSE "tool not found: " \o e.msg

\* ------------------------------------------------- thulp_core::ToolResult
ToolResult_success(data) ==
    [success |-> TRUE, data |-> Some(data), error |-> None, duration_ms |-> None]
ToolResult_failure(err) ==
    [success |-> FALSE, data |-> None, error |-> Some(err), duration_ms |-> None]
is_success(tr) == tr.success

\* ------------------------------------------------------------ SkillError
RetryExhausted(s, a, m) ==
    [type |-> "RetryExhausted", step |-> s, attempts |-> a, message |-> m]
StepTimeout(s, d) == [type |-> "StepTimeout", step |-> s, duration |-> d]
SkillTimeout(d) == [type |-> "SkillTimeout", duration |-> d]

\* Display of SkillError
SkillErrorDisplay(e) ==
    IF e.type = "RetryExhausted"
    THEN "Step '" \o e.step \o "' failed after " \o IntToStr(e.attempts)
             \o " attempts: " \o e.message
    ELSE IF e.type = "StepTimeout"
    THEN "Step '" \o e.step \o "' timed out after " \o DurationDebug(e.duration)
    ELSE "Skill timed out after " \o DurationDebug(e.duration)

\* ------------------------------------------------- StepResult, SkillResult
StepResult(name, ok, out, err, dur, retries) ==
    [step_name |-> name, success |-> ok, output |-> out, error |-> err,
     duration_ms |-> dur, retry_attempts |-> retries]
StepResult_failure(name, err, dur) ==
    StepResult(name, FALSE, None, Some(err), dur, 0)

SkillResult(ok, results, out, err) ==
    [success |-> ok, step_results |-> results, output |-> out, error |-> err]

Ok(x) == [ok |-> TRUE, v |-> x]
Err(e) == [ok |-> FALSE, e |-> e]

\* ----------------------------------------------------------- retry policy
RetryableErrorKinds == {"Network", "RateLimit", "Timeout", "ServerError", "All"}
BackoffStrategies == {"Fixed", "Exponential", "ExponentialJitter"}

Min(a, b) == IF a <= b THEN a ELSE b

\* width of the u32 backoff multiplier
U32Bits == 32

\* 2u32.saturating_pow(k)
saturating_pow2(k) == IF k >= U32Bits THEN 2^U32Bits - 1 ELSE 2^k

\* attempt.saturating_sub(1)
saturating_sub1(attempt) == IF attempt >= 1 THEN attempt - 1 ELSE 0

\* initial_delay * 2^(attempt-1)
ExponentialBase(config, attempt) ==
    config.initial_delay * saturating_pow2(saturating_sub1(attempt))

\* the values fastrand::u64(0..jitter_range) can return (0 when the range is empty)
JitterDraws(config, attempt) ==
    IF config.backoff = "ExponentialJitter"
    THEN LET jitter_range == ExponentialBase(config, attempt) \div 2
         IN IF jitter_range > 0 THEN 0..(jitter_range - 1) ELSE {0}
    ELSE {0}

\* calculate_delay; jitter is the random draw
calculate_delay(config, attempt, jitter) ==
    LET base_delay ==
            IF config.backoff = "Fixed" THEN config.initial_delay
            ELSE IF config.backoff = "Exponential"
            THEN ExponentialBase(config, attempt)
            ELSE ExponentialBase(config, attempt) + jitter
    IN Min(base_delay, config.max_delay)

\* ------------------------------------------- calculate_delay at full width
\* Durations in nanoseconds and the usize attempt number exceed the machine
\* integers of the checker, so they are little-endian sequences of limbs
\* below LimbBase with no leading zero limb; <<>> is 0.
LimbBase == 2^8
NanosPerSec == 10^9
NanosPerMilli == 10^6

RECURSIVE WFromInt(_)
WFromInt(n) == IF n = 0 THEN <<>> ELSE <<n % LimbBase>> \o WFromInt(n \div LimbBase)

RECURSIVE WNorm(_)
WNorm(a) ==
    IF a = <<>> \/ a[Len(a)] # 0 THEN a ELSE WNorm(SubSeq(a, 1, Len(a) - 1))

Limb(a, i) == IF i <= Len(a) THEN a[i] ELSE 0

RECURSIVE WAddFrom(_, _, _, _)
WAddFrom(a, b, i, carry) ==
    IF i > Len(a) /\ i > Len(b)
    THEN IF carry = 0 THEN <<>> ELSE <<carry>>
    ELSE LET sum == Limb(a, i) + Limb(b, i) + carry
         IN <<sum % LimbBase>> \o WAddFrom(a, b, i + 1, sum \div LimbBase)

WAdd(a, b) == WAddFrom(a, b, 1, 0)

\* a * m for a machine integer m below 2^22
RECURSIVE WMulLimbFrom(_, _, _, _)
WMulLimbFrom(a, m, i, carry) ==
    IF i > Len(a)
    THEN WFromInt(carry)
    ELSE LET prod == a[i] * m + carry
         IN <<prod % LimbBase>> \o WMulLimbFrom(a, m, i + 1, prod \div LimbBase)

WMulLimb(a, m) == WNorm(WMulLimbFrom(a, m, 1, 0))

\* a * LimbBase^k
WShift(a, k) == IF a = <<>> THEN <<>> ELSE [i \in 1..k |-> 0] \o a

RECURSIVE WMulFrom(_, _, _)
WMulFrom(a, b, j) ==
    IF j > Len(b) THEN <<>>
    ELSE WAdd(WShift(WMulLimb(a, b[j]), j - 1), WMulFrom(a, b, j + 1))

WMul(a, b) == WMulFrom(a, b, 1)

RECURSIVE WLessEqFrom(_, _, _)
WLessEqFrom(a, b, i) ==
    IF i = 0 THEN TRUE
    ELSE IF a[i] # b[i] THEN a[i] < b[i]
    ELSE WLessEqFrom(a, b, i - 1)

WLessEq(a, b) ==
    IF Len(a) # Len(b) THEN Len(a) < Len(b) ELSE WLessEqFrom(a, b, Len(a))

\* std::cmp::min
WMin(a, b) == IF WLessEq(a, b) THEN a ELSE b

\* a - 1 for a > 0
RECURSIVE WPredRaw(_)
WPredRaw(a) ==
    IF a[1] > 0 THEN <<a[1] - 1>> \o Tail(a)
    ELSE <<LimbBase - 1>> \o WPredRaw(Tail(a))

WPred(a) == WNorm(WPredRaw(a))

WSucc(a) == WAdd(a, <<1>>)

\* 2^k
WPow2(k) == WShift(<<2^(k % 8)>>, k \div 8)

\* a / d, rounded down, for a machine integer d below 2^22
RECURSIVE WDivFrom(_, _, _, _)
WDivFrom(a, d, i, rem) ==
    IF i = 0 THEN <<>>
    ELSE LET cur == rem * LimbBase + a[i]
         IN WDivFrom(a, d, i - 1, cur % d) \o <<cur \div d>>

WDiv(a, d) == WNorm(WDivFrom(a, d, Len(a), 0))

\* `as` cast to an unsigned integer of the given number of bits: the low bits
WTruncate(a, bits) ==
    LET limbs == bits \div 8
    IN WNorm(SubSeq(a, 1, IF Len(a) < limbs THEN Len(a) ELSE limbs))

\* u32::MAX, what 2u32.saturating_pow saturates at
U32Max == WPred(WPow2(U32Bits))

\* width of the u64 seconds of a Duration and of the jitter range
U64Bits == 64

\* Duration::MAX: u64::MAX seconds and 999_999_999 nanoseconds
DurationMax == WPred(WMul(WPow2(U64Bits), WFromInt(NanosPerSec)))

\* Duration::from_nanos, from_millis, from_secs
from_nanos_ns(n) == WFromInt(n)
from_millis_ns(ms) == WMul(ms, WFromInt(NanosPerMilli))
from_secs_ns(secs) == WMul(WFromInt(secs), WFromInt(NanosPerSec))

\* 2u32.saturating_pow(exp) for a u32 exp
u32_saturating_pow2(exp) ==
    IF WLessEq(WFromInt(U32Bits), exp) THEN U32Max ELSE WPow2(Limb(exp, 1))

\* attempt.saturating_sub(1) as u32
exponent_of(attempt) ==
    WTruncate(IF attempt = <<>> THEN <<>> ELSE WPred(attempt), U32Bits)

\* Duration::saturating_mul
Duration_saturating_mul(d, m) == WMin(WMul(d, m), DurationMax)

\* config.initial_delay.saturating_mul(2u32.saturating_pow(attempt.saturating_sub(1) as u32))
ExponentialBase_ns(config, attempt) ==
    Duration_saturating_mul(config.initial_delay, u32_saturating_pow2(exponent_of(attempt)))

\* base.as_millis() as u64 / 2
jitter_range_ns(config, attempt) ==
    WDiv(WTruncate(WDiv(ExponentialBase_ns(config, attempt), NanosPerMilli), U64Bits), 2)

\* the extreme values fastrand::u64(0..jitter_range) can return, in milliseconds
\* (0 when the range is empty)
JitterDraws_ns(config, attempt) ==
    IF config.backoff = "ExponentialJitter" /\ jitter_range_ns(config, attempt) # <<>>
    THEN {<<>>, WPred(jitter_range_ns(config, attempt))}
    ELSE {<<>>}

\* mutant: the Fixed strategy is not capped by max_delay
calculate_delay_ns_FixedUncapped(config, attempt, jitter) ==
    IF config.backoff = "Fixed" THEN config.initial_delay
    ELSE IF config.backoff = "Exponential"
    THEN WMin(ExponentialBase_ns(config, attempt), config.max_delay)
    ELSE WMin(WAdd(ExponentialBase_ns(config, attempt), from_millis_ns(jitter)),
              config.max_delay)

\* calculate_delay on nanoseconds; jitter is the random draw, in milliseconds
calculate_delay_ns(config, attempt, jitter) ==
    LET base_delay ==
            IF config.backoff = "Fixed" THEN config.initial_delay
            ELSE IF config.backoff = "Exponential"
            THEN ExponentialBase_ns(config, attempt)
            ELSE WAdd(ExponentialBase_ns(config, attempt), from_millis_ns(jitter))
    IN WMin(base_delay, config.max_delay)

RateLimitWords == {"rate limit", "429", "too many requests"}
TimeoutWords == {"timeout", "timed out"}
ServerErrorWords == {"500", "502", "503", "504", "internal server error",
                     "bad gateway", "service unavailable"}
NetworkWords == {"connection", "network", "dns", "resolve", "unreachable"}

ContainsAny(msg, words) == \E w \in words : Contains(msg, w)

\* mutant: "429" is not among the rate limit words
is_error_retryable_No429(error, config) ==
    IF "All" \in config.retryable_errors THEN TRUE
    ELSE LET msg == to_lowercase(error)
         IN \/ "RateLimit" \in config.retryable_errors
                 /\ ContainsAny(msg, RateLimitWords \ {"429"})
            \/ "Timeout" \in config.retryable_errors /\ ContainsAny(msg, TimeoutWords)
            \/ "ServerError" \in config.retryable_errors /\ ContainsAny(msg, ServerErrorWords)
            \/ "Network" \in config.retryable_errors /\ ContainsAny(msg, NetworkWords)

\* mutant: a match counts whether or not its category is enabled
is_error_retryable_AnyCategory(error, config) ==
    IF "All" \in config.retryable_errors THEN TRUE
    ELSE LET msg == to_lowercase(error)
         IN \/ ContainsAny(msg, RateLimitWords)
            \/ ContainsAny(msg, TimeoutWords)
            \/ ContainsAny(msg, ServerErrorWords)
            \/ ContainsAny(msg, NetworkWords)

is_error_retryable(error, config) ==
    IF "All" \in config.retryable_errors THEN TRUE
    ELSE LET msg == to_lowercase(error)
         IN \/ "RateLimit" \in config.retryable_errors /\ ContainsAny(msg, RateLimitWords)
            \/ "Timeout" \in config.retryable_errors /\ ContainsAny(msg, TimeoutWords)
            \/ "ServerError" \in config.retryable_errors /\ ContainsAny(msg, ServerErrorWords)
            \/ "Network" \in config.retryable_errors /\ ContainsAny(msg, NetworkWords)

\* ----------------------------------------------------------- configuration
\* the retryable_errors of RetryConfig::default()
DefaultRetryables == {"Network", "RateLimit", "Timeout"}

\* delays are a few milliseconds, so that retries fit inside the timeouts explored
RetryConfig(m, b, r) ==
    [max_retries |-> m, initial_delay |-> 2, max_delay |-> 4, backoff |-> b,
     retryable_errors |-> r]

\* default(): timeouts are retried, the Transport error explored is not;
\* retry_all_errors(): every Transport error is retried;
\* RateLimit only: neither is retried
RetryConfigs ==
    { RetryConfig(MaxRetries, "ExponentialJitter", DefaultRetryables),
      RetryConfig(MaxRetries, "Fixed", {"All"}),
      RetryConfig(MaxRetries, "Exponential", {"RateLimit"}) }

TimeoutActions == {"Fail", "Skip", "Partial"}

TimeoutConfigs ==
    [skill_timeout : {11, 300000}, step_timeout : {10}, tool_timeout : {50},
     timeout_action : TimeoutActions]

ExecutionConfigs == [timeout : TimeoutConfigs, retry : RetryConfigs]

\* ------------------------------------------------------------------ skills
StepNames == <<"step1", "step2", "step3", "step4">>

SkillStep(n, a, c, t, m) ==
    [name |-> n, tool |-> "tool", arguments |-> a, continue_on_error |-> c,
     timeout_secs |-> t, max_retries |-> m]

\* the argument tree of the i-th step: the first step takes the skill's input
\* and names a variable nobody binds, every later step takes as its sole
\* argument the output of the step before it
StepArguments(i) ==
    IF i = 1
    THEN JObj(<< <<"note", JStr("lang={{lang}}")>>, <<"query", JStr("{{query}}")>> >>)
    ELSE JObj(<< <<"input", JStr("{{" \o StepNames[i - 1] \o "}}")>> >>)

\* per-step settings explored: <<continue_on_error, timeout_secs, max_retries>>
StepShapes ==
    { <<FALSE, None, None>>, <<TRUE, None, None>>, <<FALSE, Some(1), Some(0)>> }

Skills ==
    { [name |-> "skill",
       steps |-> [i \in 1..Len(f) |->
                    SkillStep(StepNames[i], StepArguments(i), f[i][1], f[i][2], f[i][3])]] :
      f \in UNION { [1..n -> StepShapes] : n \in 0..MaxSteps } }

\* ------------------------------------------------------------- Transport
\* what a Transport may do with one call: its answer and the milliseconds it takes
Answer(r, d) == [answer |-> r, ms |-> d]

TransportAnswers ==
    { Answer(Ok(ToolResult_success(JObj(<< <<"value", JNum(42)>> >>))), 5),
      Answer(Ok(ToolResult_success(JObj(<< <<"value", JNum(42)>> >>))), 100),
      Answer(Ok(ToolResult_failure("tool failed")), 5),
      Answer(Err(ExecutionFailed("Service Unavailable")), 5) }

\* the error texts this Transport produces
ErrorTexts == {CoreErrorDisplay(a.answer.e) : a \in {b \in TransportAnswers : ~b.answer.ok}}

\* is_error_retryable on those texts under each policy explored, evaluated once
RetryableVerdicts ==
    [m \in ErrorTexts, r \in {c.retryable_errors : c \in RetryConfigs} |->
        is_error_retryable(m, [retryable_errors |-> r])]

\* is_error_retryable(&error_msg, retry_config), looked up where it is tabulated
IsRetryable(error, retry_config) ==
    IF <<error, retry_config.retryable_errors>> \in DOMAIN RetryableVerdicts
    THEN RetryableVerdicts[error, retry_config.retryable_errors]
    ELSE is_error_retryable(error, retry_config)

\* ------------------------------------------------------ ExecutionContext
NoValues == [k \in {} |-> JNull]

ExecutionContext(ins, cfg) ==
    [inputs |-> ins, outputs |-> NoValues, config |-> cfg, metadata |-> NoValues]

\* HashMap::insert
MapInsert(m, k, x) == [j \in (DOMAIN m) \cup {k} |-> IF j = k THEN x ELSE m[j]]

set_output(ctx, step_name, value) ==
    [ctx EXCEPT !.outputs = MapInsert(@, step_name, value)]

\* with_input: HashMap::insert on inputs
with_input(ctx, key, value) ==
    [ctx EXCEPT !.inputs = MapInsert(@, key, value)]

\* clear_outputs: HashMap::clear on outputs
clear_outputs(ctx) == [ctx EXCEPT !.outputs = NoValues]

\* mutant: on a shared key the input is kept
variables_InputsWin(ctx) ==
    [k \in (DOMAIN ctx.inputs) \cup (DOMAIN ctx.outputs) |->
        IF k \in DOMAIN ctx.inputs THEN ctx.inputs[k] ELSE ctx.outputs[k]]

\* mutant: the outputs of earlier steps are not offered to substitution
variables_InputsOnly(ctx) == ctx.inputs

\* variables(): inputs.clone() extended by outputs, outputs win on a shared key
variables(ctx) ==
    [k \in (DOMAIN ctx.inputs) \cup (DOMAIN ctx.outputs) |->
        IF k \in DOMAIN ctx.outputs THEN ctx.outputs[k] ELSE ctx.inputs[k]]

\* ---------------------------------------------------- variable substitution
\* str::starts_with, str::ends_with
starts_with(s, p) == Len(s) >= Len(p) /\ SubSeq(s, 1, Len(p)) = p
ends_with(s, p) == Len(s) >= Len(p) /\ SubSeq(s, Len(s) - Len(p) + 1, Len(s)) = p

RECURSIVE trim_start(_)
trim_start(s) ==
    IF Len(s) > 0 /\ SubSeq(s, 1, 1) = " " THEN trim_start(SubSeq(s, 2, Len(s))) ELSE s

RECURSIVE trim_end(_)
trim_end(s) ==
    IF Len(s) > 0 /\ SubSeq(s, Len(s), Len(s)) = " "
    THEN trim_end(SubSeq(s, 1, Len(s) - 1))
    ELSE s

\* str::trim; the white space of the strings explored is the space character
trim(s) == trim_end(trim_start(s))

RECURSIVE replace(_, _, _)
\* str::replace: every non-overlapping match of a non-empty pattern, left to right
replace(s, from, to) ==
    IF Len(s) < Len(from) THEN s
    ELSE IF SubSeq(s, 1, Len(from)) = from
    THEN to \o replace(SubSeq(s, Len(from) + 1, Len(s)), from, to)
    ELSE SubSeq(s, 1, 1) \o replace(SubSeq(s, 2, Len(s)), from, to)

RECURSIVE escape(_)
\* serde_json's string escaping of the quote and the backslash
escape(s) ==
    IF Len(s) = 0 THEN ""
    ELSE LET c == SubSeq(s, 1, 1)
         IN (IF c = "\"" THEN "\\\"" ELSE IF c = "\\" THEN "\\\\" ELSE c)
            \o escape(SubSeq(s, 2, Len(s)))

RECURSIVE JoinWith(_, _)
JoinWith(parts, sep) ==
    IF Len(parts) = 0 THEN ""
    ELSE IF Len(parts) = 1 THEN parts[1]
    ELSE parts[1] \o sep \o JoinWith(Tail(parts), sep)

RECURSIVE to_string(_)
\* serde_json::to_string: compact JSON text
to_string(value) ==
    IF value.t = "null" THEN "null"
    ELSE IF value.t = "bool" THEN (IF value.b THEN "true" ELSE "false")
    ELSE IF value.t = "num" THEN IntToStr(value.n)
    ELSE IF value.t = "str" THEN "\"" \o escape(value.s) \o "\""
    ELSE IF value.t = "arr"
    THEN "[" \o JoinWith([i \in 1..Len(value.a) |-> to_string(value.a[i])], ",") \o "]"
    ELSE "{" \o JoinWith([i \in 1..Len(value.o) |->
                            "\"" \o escape(value.o[i][1]) \o "\":" \o to_string(value.o[i][2])],
                         ",") \o "}"

\* the replacement text of interpolation: strings verbatim, the rest as JSON text
Replacement(var_value) ==
    IF var_value.t = "str" THEN var_value.s ELSE to_string(var_value)

\* format!("{{{{{}}}}}", key)
Placeholder(key) == "{{" \o key \o "}}"

RECURSIVE interpolate(_, _, _)
\* for (key, var_value) in variables, in the order the HashMap yields them
interpolate(result, vars_map, order) ==
    IF Len(order) = 0 THEN result
    ELSE LET key == Head(order)
             placeholder == Placeholder(key)
         IN interpolate(IF Contains(result, placeholder)
                        THEN replace(result, placeholder, Replacement(vars_map[key]))
                        ELSE result,
                        vars_map, Tail(order))

\* the string is, once trimmed, one placeholder of a bound variable
IsWholePlaceholder(s, vars_map) ==
    LET trimmed == trim(s)
        inner == SubSeq(trimmed, 3, Len(trimmed) - 2)
    IN /\ starts_with(trimmed, "{{")
       /\ ends_with(trimmed, "}}")
       /\ ~Contains(inner, "{{")
       /\ ~Contains(inner, "}}")
       /\ trim(inner) \in DOMAIN vars_map

\* mutant: a whole-string placeholder of an unbound name resolves to null
substitute_string_NullForUnbound(s, vars_map, order) ==
    LET trimmed == trim(s)
        inner == SubSeq(trimmed, 3, Len(trimmed) - 2)
    IN IF /\ starts_with(trimmed, "{{")
          /\ ends_with(trimmed, "}}")
          /\ ~Contains(inner, "{{")
          /\ ~Contains(inner, "}}")
       THEN (IF trim(inner) \in DOMAIN vars_map THEN vars_map[trim(inner)] ELSE JNull)
       ELSE JStr(interpolate(s, vars_map, order))

\* substitute_value, Value::String arm
substitute_string(s, vars_map, order) ==
    IF IsWholePlaceholder(s, vars_map)
    THEN LET trimmed == trim(s)
         IN vars_map[trim(SubSeq(trimmed, 3, Len(trimmed) - 2))]
    ELSE JStr(interpolate(s, vars_map, order))

RECURSIVE substitute_value(_, _, _)
\* substitute_value; order is the iteration order of the variables HashMap.
\* Its only Err is a failed serde_json::to_string of a Value, which cannot occur.
substitute_value(value, vars_map, order) ==
    IF value.t = "str" THEN substitute_string(value.s, vars_map, order)
    ELSE IF value.t = "arr"
    THEN JArr([i \in 1..Len(value.a) |-> substitute_value(value.a[i], vars_map, order)])
    ELSE IF value.t = "obj"
    THEN JObj([i \in 1..Len(value.o) |->
                 <<value.o[i][1], substitute_value(value.o[i][2], vars_map, order)>>])
    ELSE value

\* the orders in which a HashMap with these keys may yield them
IterationOrders(keys) ==
    {f \in [1..Cardinality(keys) -> keys] : \A i, j \in DOMAIN f : f[i] = f[j] => i = j}

\* prepare_arguments(&step.arguments, context)
prepare_arguments(args, ctx, order) == Ok(substitute_value(args, variables(ctx), order))

\* ------------------------------------------------------------------ state
VARIABLES
    skill,          \* the Skill handed to execute()
    context,        \* the caller's ExecutionContext
    pc,             \* where the execute() call stands
    index,          \* zero-based index of the step being run
    attempts,       \* attempts made for the current step
    tool_call,      \* the ToolCall prepared for the current step
    step_results,   \* execute_steps' accumulator of (step name, ToolResult)
    events,         \* hook invocations and Transport calls, in order
    now,            \* elapsed milliseconds
    deadline,       \* instant at which the skill-level timeout expires
    step_start,     \* instant at which the current step started
    delay,          \* length of the sleep in progress
    inner,          \* outcome of the skill-level timeout wrapper
    result,         \* what execute() returned
    others          \* the other executions on this executor, each as a frame

vars == <<skill, context, pc, index, attempts, tool_call, step_results, events, now,
          deadline, step_start, delay, inner, result, others>>

Inputs == [query |-> JStr("rust")]

Init ==
    /\ skill \in Skills
    /\ \E cfg \in ExecutionConfigs : context = ExecutionContext(Inputs, cfg)
    /\ pc = "idle"
    /\ index = 0
    /\ attempts = 0
    /\ tool_call = None
    /\ step_results = <<>>
    /\ events = <<>>
    /\ now = 0
    /\ deadline = 0
    /\ step_start = 0
    /\ delay = 0
    /\ inner = None
    /\ result = None
    /\ others = <<>>

config == context.config
\* mutant: the loop walks the steps from the last declared to the first
CurStep_Reversed == skill.steps[Len(skill.steps) - index]

\* for (index, step) in skill.steps.iter().enumerate()
CurStep == skill.steps[index + 1]

\* ----------------------------------------------------------- hook events
BeforeSkill == [h |-> "before_skill"]
AfterSkill(r) == [h |-> "after_skill", result |-> r]
BeforeStep(step, i) == [h |-> "before_step", step |-> step.name, index |-> i]
AfterStep(step, i, sr) ==
    [h |-> "after_step", step |-> step.name, index |-> i, result |-> sr]
OnRetry(step, attempt, error) ==
    [h |-> "on_retry", step |-> step.name, attempt |-> attempt, error |-> error]
OnError(e) == [h |-> "on_error", error |-> e]
OnTimeout(step, ms) == [h |-> "on_timeout", step |-> step.name, duration_ms |-> ms]
\* self.transport.call(tool_call)
TransportCall(step, call, attempt) ==
    [h |-> "call", step |-> step.name, tool |-> call.tool,
     arguments |-> call.arguments, attempt |-> attempt]
\* what tokio::time::timeout(timeout, self.transport.call(..)).await evaluated to
AttemptOk(tool_result) == [kind |-> "ok", v |-> tool_result]
AttemptErr(e) == [kind |-> "err", e |-> e]
Elapsed == [kind |-> "elapsed"]
AttemptResult(step, attempt, outcome, ms) ==
    [h |-> "result", step |-> step.name, attempt |-> attempt, outcome |-> outcome,
     ms |-> ms]
\* tokio::time::sleep(delay)
Sleep(ms) == [h |-> "sleep", ms |-> ms]
\* the skill-level tokio::time::timeout evaluated to Err(elapsed)
SkillElapsed == [h |-> "skill_elapsed"]

\* ------------------------------------------------- per-step effective limits
\* mutant: the step's own timeout_secs is not consulted
EffectiveTimeout_IgnoresOverride(step, cfg) ==
    cfg.timeout.step_timeout

\* step.timeout_secs.map(Duration::from_secs).unwrap_or(config.timeout.step_timeout)
EffectiveTimeout(step, cfg) ==
    IF step.timeout_secs.some THEN from_secs(step.timeout_secs.v)
    ELSE cfg.timeout.step_timeout

\* RetryConfig { max_retries, ..config.retry.clone() }
EffectiveRetry(step, cfg) ==
    [cfg.retry EXCEPT !.max_retries =
        IF step.max_retries.some THEN step.max_retries.v ELSE cfg.retry.max_retries]

\* ---------------------------------------------------------- decision points
\* mutant: the error text is not consulted, every error is retried until exhaustion
ErrorIsTerminal_IgnoresRetryable(n, error_msg, retry_config) ==
    n > retry_config.max_retries

\* a transport error on this attempt ends the step
ErrorIsTerminal(n, error_msg, retry_config) ==
    n > retry_config.max_retries \/ ~IsRetryable(error_msg, retry_config)

\* mutant: one attempt too few, the last retry is never made
TimeoutIsTerminal_OffByOne(n, retry_config) ==
    n >= retry_config.max_retries \/ "Timeout" \notin retry_config.retryable_errors

\* mutant: the Timeout category is not consulted
TimeoutIsTerminal_IgnoresCategory(n, retry_config) ==
    n > retry_config.max_retries

\* a timeout on this attempt ends the step
TimeoutIsTerminal(n, retry_config) ==
    n > retry_config.max_retries \/ "Timeout" \notin retry_config.retryable_errors

\* mutant: continue_on_error is not consulted
FailureDisposition_NoContinueOnError(step, ta) ==
    IF ta = "Skip" THEN "record" ELSE IF ta = "Partial" THEN "partial" ELSE "fail"

\* mutant: Fail records the failure and goes on, like Skip
FailureDisposition_FailContinues(step, ta) ==
    IF step.continue_on_error THEN "record"
    ELSE IF ta = "Partial" THEN "partial"
    ELSE "record"

\* mutant: Partial propagates the error, like Fail
FailureDisposition_PartialFails(step, ta) ==
    IF step.continue_on_error THEN "record"
    ELSE IF ta = "Skip" THEN "record"
    ELSE "fail"

\* mutant: Skip stops the run, like Partial
FailureDisposition_SkipStops(step, ta) ==
    IF step.continue_on_error THEN "record" ELSE IF ta = "Fail" THEN "fail" ELSE "partial"

\* mutant: after a sleep longer than initial_delay the run stops, like Partial
FailureDisposition_StopsAfterLongSleep(step, ta) ==
    IF delay > config.retry.initial_delay THEN "partial"
    ELSE IF step.continue_on_error THEN "record"
    ELSE IF ta = "Skip" THEN "record"
    ELSE IF ta = "Partial" THEN "partial"
    ELSE "fail"

\* what execute_steps does with a step that failed terminally
FailureDisposition(step, ta) ==
    IF step.continue_on_error THEN "record"
    ELSE IF ta = "Skip" THEN "record"
    ELSE IF ta = "Partial" THEN "partial"
    ELSE "fail"

\* mutant: the early return of the last step is never taken
IsLastResult_Never(results, sk) == FALSE

\* step_results.len() == skill.steps.len()
IsLastResult(results, sk) == Len(results) = Len(sk.steps)

\* mutant: the skill-level timeout is an error under every timeout_action
SkillTimeoutOutcome_AlwaysErr(cfg) ==
    Err(SkillTimeout(cfg.timeout.skill_timeout))

\* mutant: the error reports the step-level timeout as its duration
SkillTimeoutOutcome_StepDuration(cfg) ==
    IF cfg.timeout.timeout_action = "Fail"
    THEN Err(SkillTimeout(cfg.timeout.step_timeout))
    ELSE Ok(SkillResult(FALSE, <<>>, None,
            Some("Skill timed out after " \o DurationDebug(cfg.timeout.skill_timeout))))

\* mutant: the partial result keeps the step results accumulated so far
SkillTimeoutOutcome_KeepsCompleted(cfg) ==
    IF cfg.timeout.timeout_action = "Fail"
    THEN Err(SkillTimeout(cfg.timeout.skill_timeout))
    ELSE Ok(SkillResult(FALSE, step_results, None,
            Some("Skill timed out after " \o DurationDebug(cfg.timeout.skill_timeout))))

\* the skill-level timeout expired
SkillTimeoutOutcome(cfg) ==
    IF cfg.timeout.timeout_action = "Fail"
    THEN Err(SkillTimeout(cfg.timeout.skill_timeout))
    ELSE Ok(SkillResult(FALSE, <<>>, None,
            Some("Skill timed out after " \o DurationDebug(cfg.timeout.skill_timeout))))

\* ------------------------------------------------------------ execute()
\* execute(): before_skill, clone the config, arm the skill-level timeout
BeginExecute ==
    /\ pc = "idle"
    /\ events' = Append(events, BeforeSkill)
    /\ deadline' = now + config.timeout.skill_timeout
    /\ step_results' = <<>>
    /\ index' = 0
    /\ pc' = "for_step"
    /\ UNCHANGED <<skill, others, tool_call, context, attempts, now, step_start, delay, inner,
                   result>>

\* execute_steps: top of the loop body up to the first Transport call
StartStep ==
    /\ pc = "for_step"
    /\ index < Len(skill.steps)
    /\ \E order \in IterationOrders(DOMAIN variables(context)) :
          LET prepared_args == prepare_arguments(CurStep.arguments, context, order)
          IN tool_call' = [tool |-> CurStep.tool, arguments |-> prepared_args.v]
    /\ events' = events \o <<BeforeStep(CurStep, index), TransportCall(CurStep, tool_call', 1)>>
    /\ attempts' = 1
    /\ step_start' = now
    /\ pc' = "await_call"
    /\ UNCHANGED <<skill, others, context, index, step_results, now, deadline, delay, inner,
                   result>>

\* execute_steps: the loop is over without an early return
EndSteps ==
    /\ pc = "for_step"
    /\ index >= Len(skill.steps)
    /\ inner' = Ok(SkillResult(TRUE, step_results, None, None))
    /\ pc' = "finish"
    /\ UNCHANGED <<skill, others, tool_call, context, index, attempts, step_results, events, now,
                   deadline, step_start, delay, result>>

\* execute_steps, Ok arm: after_step, record, set_output, return on the last step
StepSucceeded(tool_result, retry_attempts, evs) ==
    LET step == CurStep
        sr == StepResult(step.name, TRUE, tool_result.data, None,
                         now' - step_start, retry_attempts)
        results == Append(step_results, <<step.name, tool_result>>)
    IN /\ events' = Append(evs, AfterStep(step, index, sr))
       /\ step_results' = results
       /\ context' = set_output(context, step.name,
                        IF tool_result.data.some THEN tool_result.data.v ELSE JNull)
       /\ IF IsLastResult(results, skill)
          THEN /\ inner' = Ok(SkillResult(TRUE, results, tool_result.data, None))
               /\ pc' = "finish"
               /\ index' = index
          ELSE /\ inner' = inner
               /\ pc' = "for_step"
               /\ index' = index + 1

\* mutant: a failed step that is skipped leaves no entry in step_results
StepFailed_NotRecorded(e, evs) ==
    LET step == CurStep
        text == SkillErrorDisplay(e)
        sr == StepResult_failure(step.name, text, now' - step_start)
        disposition == FailureDisposition(step, config.timeout.timeout_action)
    IN /\ events' = evs \o <<AfterStep(step, index, sr), OnError(e)>>
       /\ context' = context
       /\ IF disposition = "record"
          THEN /\ step_results' = step_results
               /\ index' = index + 1
               /\ pc' = "for_step"
               /\ inner' = inner
          ELSE /\ inner' = IF disposition = "partial"
                           THEN Ok(SkillResult(FALSE, step_results, None, Some(text)))
                           ELSE Err(e)
               /\ pc' = "finish"
               /\ UNCHANGED <<step_results, index>>

\* mutant: a step that failed terminally is not reported to after_step
StepFailed_NoAfterStep(e, evs) ==
    LET step == CurStep
        text == SkillErrorDisplay(e)
        disposition == FailureDisposition(step, config.timeout.timeout_action)
    IN /\ events' = Append(evs, OnError(e))
       /\ context' = context
       /\ IF disposition = "record"
          THEN /\ step_results' = Append(step_results, <<step.name, ToolResult_failure(text)>>)
               /\ index' = index + 1
               /\ pc' = "for_step"
               /\ inner' = inner
          ELSE /\ inner' = IF disposition = "partial"
                           THEN Ok(SkillResult(FALSE, step_results, None, Some(text)))
                           ELSE Err(e)
               /\ pc' = "finish"
               /\ UNCHANGED <<step_results, index>>

\* execute_steps, Err arm: after_step, on_error, then continue / stop / propagate
StepFailed(e, evs) ==
    LET step == CurStep
        text == SkillErrorDisplay(e)
        sr == StepResult_failure(step.name, text, now' - step_start)
        disposition == FailureDisposition(step, config.timeout.timeout_action)
    IN /\ events' = evs \o <<AfterStep(step, index, sr), OnError(e)>>
       /\ context' = context
       /\ IF disposition = "record"
          THEN /\ step_results' = Append(step_results, <<step.name, ToolResult_failure(text)>>)
               /\ index' = index + 1
               /\ pc' = "for_step"
               /\ inner' = inner
          ELSE /\ inner' = IF disposition = "partial"
                           THEN Ok(SkillResult(FALSE, step_results, None, Some(text)))
                           ELSE Err(e)
               /\ pc' = "finish"
               /\ UNCHANGED <<step_results, index>>

\* the attempt may complete after d ms: inside the step budget and before the skill deadline
CompletesInTime(d) ==
    /\ d <= EffectiveTimeout(CurStep, config)
    /\ now + d <= deadline

\* execute_step_with_retry_timeout: the Transport answered Ok(tool_result)
CallSucceeds ==
    /\ pc = "await_call"
    /\ \E a \in TransportAnswers :
          /\ a.answer.ok
          /\ CompletesInTime(a.ms)
          /\ now' = now + a.ms
          /\ StepSucceeded(a.answer.v, attempts - 1,
                Append(events, AttemptResult(CurStep, attempts, AttemptOk(a.answer.v), a.ms)))
    /\ UNCHANGED <<skill, others, tool_call, attempts, deadline, step_start, delay, result>>

\* execute_step_with_retry_timeout: the Transport answered Err(e)
CallFails ==
    /\ pc = "await_call"
    /\ \E a \in {b \in TransportAnswers : ~b.answer.ok} :
          LET error_msg == CoreErrorDisplay(a.answer.e)
              retry_config == EffectiveRetry(CurStep, config)
              evs == Append(events, AttemptResult(CurStep, attempts, AttemptErr(a.answer.e), a.ms))
          IN /\ CompletesInTime(a.ms)
             /\ now' = now + a.ms
             /\ IF ErrorIsTerminal(attempts, error_msg, retry_config)
                THEN /\ StepFailed(RetryExhausted(CurStep.name, attempts, error_msg), evs)
                     /\ delay' = delay
                ELSE /\ \E j \in JitterDraws(retry_config, attempts) :
                           delay' = calculate_delay(retry_config, attempts, j)
                     /\ events' = evs \o <<OnRetry(CurStep, attempts, error_msg), Sleep(delay')>>
                     /\ pc' = "sleeping"
                     /\ UNCHANGED <<context, index, step_results, inner>>
    /\ UNCHANGED <<skill, others, tool_call, attempts, deadline, step_start, result>>

\* execute_step_with_retry_timeout: the step budget ran out first
CallTimesOut ==
    /\ pc = "await_call"
    /\ LET timeout == EffectiveTimeout(CurStep, config)
           retry_config == EffectiveRetry(CurStep, config)
           evs == events \o <<AttemptResult(CurStep, attempts, Elapsed, timeout),
                              OnTimeout(CurStep, timeout)>>
       IN /\ now + timeout <= deadline
          /\ now' = now + timeout
          /\ IF TimeoutIsTerminal(attempts, retry_config)
             THEN /\ StepFailed(StepTimeout(CurStep.name, timeout), evs)
                  /\ delay' = delay
             ELSE /\ \E j \in JitterDraws(retry_config, attempts) :
                        delay' = calculate_delay(retry_config, attempts, j)
                  /\ events' = evs \o <<OnRetry(CurStep, attempts, "timeout"), Sleep(delay')>>
                  /\ pc' = "sleeping"
                  /\ UNCHANGED <<context, index, step_results, inner>>
    /\ UNCHANGED <<skill, others, tool_call, attempts, deadline, step_start, result>>

\* mutant: the sleep before a retry never ends
WakeUp_Never == pc = "sleeping" /\ delay < 0 /\ UNCHANGED vars

\* execute_step_with_retry_timeout: the sleep is over, next attempt
WakeUp ==
    /\ pc = "sleeping"
    /\ now + delay <= deadline
    /\ now' = now + delay
    /\ attempts' = attempts + 1
    /\ events' = Append(events, TransportCall(CurStep, tool_call, attempts + 1))
    /\ pc' = "await_call"
    /\ UNCHANGED <<skill, others, tool_call, context, index, step_results, deadline, step_start,
                   delay, inner, result>>

\* mutant: the step cut by the skill-level timeout is still reported
SkillTimeoutExpires_StepReports ==
    /\ pc \in {"await_call", "sleeping"}
    /\ deadline <= now + (IF pc = "sleeping" THEN delay
                          ELSE EffectiveTimeout(CurStep, config))
    /\ now' = deadline
    /\ inner' = SkillTimeoutOutcome(config)
    /\ events' = events \o
          <<SkillElapsed,
            AfterStep(CurStep, index,
                      StepResult_failure(CurStep.name, "cancelled", now' - step_start))>>
    /\ pc' = "finish"
    /\ UNCHANGED <<skill, others, tool_call, context, index, attempts, step_results,
                   deadline, step_start, delay, result>>

\* execute(): the skill-level timeout expired while the step loop was suspended
SkillTimeoutExpires ==
    /\ pc \in {"await_call", "sleeping"}
    /\ deadline <= now + (IF pc = "sleeping" THEN delay
                          ELSE EffectiveTimeout(CurStep, config))
    /\ now' = deadline
    /\ inner' = SkillTimeoutOutcome(config)
    /\ events' = IF config.timeout.timeout_action = "Fail"
                 THEN events \o <<SkillElapsed,
                                  OnError(SkillTimeout(config.timeout.skill_timeout))>>
                 ELSE Append(events, SkillElapsed)
    /\ pc' = "finish"
    /\ UNCHANGED <<skill, others, tool_call, context, index, attempts, step_results, deadline,
                   step_start, delay, result>>

\* mutant: an Err outcome is reported to on_error only
ResultNotifications_NoAfterSkillOnErr(skill_result) ==
    IF skill_result.ok
    THEN <<AfterSkill(skill_result.v)>>
    ELSE <<OnError(skill_result.e)>>

\* execute(): match &skill_result { Ok => after_skill, Err => on_error, after_skill }
ResultNotifications(skill_result) ==
    IF skill_result.ok
    THEN <<AfterSkill(skill_result.v)>>
    ELSE <<OnError(skill_result.e),
           AfterSkill(SkillResult(FALSE, <<>>, None,
                                  Some(SkillErrorDisplay(skill_result.e))))>>

\* execute(): notify the hooks with the result and return
Finish ==
    /\ pc = "finish"
    /\ events' = events \o ResultNotifications(inner)
    /\ result' = inner
    /\ pc' = "done"
    /\ UNCHANGED <<skill, others, tool_call, context, index, attempts, step_results, now, deadline,
                   step_start, delay, inner>>

Next ==
    \/ BeginExecute
    \/ StartStep
    \/ EndSteps
    \/ CallSucceeds
    \/ CallFails
    \/ CallTimesOut
    \/ WakeUp
    \/ SkillTimeoutExpires
    \/ Finish

Spec == Init /\ [][Next]_vars

\* the runtime keeps polling the call: a timer that is due fires, an answer
\* that has arrived is taken, a step that can be taken is taken
LiveSpec == Init /\ [][Next]_vars /\ WF_vars(Next)

\* ------------------------------------- argument preparation on its own inputs
\* execute() has not been called yet
NotStarted ==
    /\ pc = "idle"
    /\ index = 0
    /\ attempts = 0
    /\ tool_call = None
    /\ step_results = <<>>
    /\ events = <<>>
    /\ now = 0
    /\ deadline = 0
    /\ step_start = 0
    /\ delay = 0
    /\ inner = None
    /\ result = None
    /\ others = <<>>

\* values a variable may be bound to: one of each JSON type, and strings that
\* read as placeholders of other variables
BoundValues ==
    { JStr("rust"), JNum(42), JBool(TRUE), JNull,
      JArr(<<JNum(1), JStr("s")>>), JObj(<< <<"a", JNum(1)>> >>),
      JStr("{{b}}"), JStr("say \"hi\"") }

\* the inputs of the context: a binds each value in turn, alone or next to b
VariableMaps ==
    { [a |-> x] : x \in BoundValues } \cup
    { [a |-> x, b |-> JStr("X")] : x \in BoundValues } \cup
    { [b |-> JNum(7)] }

\* argument strings: whole placeholders, embedded ones, unbound names, plain text
ArgStrings ==
    { "{{a}}", "  {{a}} ", "{{ a }}", "val={{a}}", "{{a}} and {{a}}", "{{a}}{{b}}",
      "{{b}} then {{a}}", "{{missing}}", " {{missing}} ", "x {{missing}} y {{a}}",
      "plain", "" }

\* the argument tree around one string: directly under a key, or inside an array
ArgTree(nested, s) ==
    IF nested THEN JObj(<< <<"x", JArr(<<JStr(s), JNum(7)>>)>> >>)
    ELSE JObj(<< <<"x", JStr(s)>> >>)

SubstInit ==
    /\ \E s \in ArgStrings, nested \in BOOLEAN :
          skill = [name |-> "skill",
                   steps |-> <<SkillStep("step1", ArgTree(nested, s), FALSE, None, None)>>]
    /\ \E m \in VariableMaps, cfg \in {c \in ExecutionConfigs : c.timeout.skill_timeout > 11} :
          /\ cfg.timeout.timeout_action = "Fail"
          /\ cfg.retry.backoff = "Fixed"
          /\ context = ExecutionContext(m, cfg)
    /\ NotStarted

\* execute() up to the first Transport call of the first step
SubstNext ==
    \/ BeginExecute
    \/ StartStep

SubstSpec == SubstInit /\ [][SubstNext]_vars

\* ------------------------------------------- execute() on per-step overrides
\* per-step settings that override the timeout only or the retry limit only
OverrideShapes ==
    { <<TRUE, Some(1), None>>, <<TRUE, None, Some(0)>>, <<TRUE, None, Some(MaxRetries + 1)>> }

OverrideSkills ==
    { [name |-> "skill",
       steps |-> [i \in 1..Len(f) |->
                    SkillStep(StepNames[i], StepArguments(i), f[i][1], f[i][2], f[i][3])]] :
      f \in UNION { [1..n -> OverrideShapes] : n \in 0..MaxSteps } }

\* retry_all_errors() and a policy that retries timeouts only
OverrideConfigs ==
    [timeout : [skill_timeout : {11, 300000}, step_timeout : {10}, tool_timeout : {50},
                timeout_action : {"Fail"}],
     retry : { RetryConfig(MaxRetries, "Fixed", {"All"}),
               RetryConfig(MaxRetries, "Exponential", {"Timeout"}) }]

OverrideInit ==
    /\ skill \in OverrideSkills
    /\ \E cfg \in OverrideConfigs : context = ExecutionContext(Inputs, cfg)
    /\ NotStarted

OverrideSpec == OverrideInit /\ [][Next]_vars

\* ------------------------------------------- ExecutionContext on its own
\* longest sequence of ExecutionContext operations explored
MaxOps == 4

ContextKeys == {"shared", "step1"}
ContextValues == {JStr("v1"), JStr("v2")}

\* the operations applied to the context, in order, as entries of events
WithInputOp(key, value) == [h |-> "with_input", key |-> key, value |-> value]
SetOutputOp(key, value) == [h |-> "set_output", key |-> key, value |-> value]
ClearOutputsOp == [h |-> "clear_outputs"]
VariablesOp(returned) == [h |-> "variables", returned |-> returned]

\* ExecutionContext::new()
ContextInit ==
    /\ skill \in {sk \in Skills : Len(sk.steps) = 0}
    /\ \E cfg \in ExecutionConfigs :
          /\ cfg.timeout.skill_timeout = 300000
          /\ cfg.timeout.timeout_action = "Fail"
          /\ cfg.retry.backoff = "ExponentialJitter"
          /\ context = ExecutionContext(NoValues, cfg)
    /\ NotStarted

ContextUnchanged ==
    UNCHANGED <<skill, others, pc, index, attempts, tool_call, step_results, now, deadline,
                step_start, delay, inner, result>>

CallWithInput ==
    /\ Len(events) < MaxOps
    /\ \E key \in ContextKeys, value \in ContextValues :
          /\ context' = with_input(context, key, value)
          /\ events' = Append(events, WithInputOp(key, value))
    /\ ContextUnchanged

CallSetOutput ==
    /\ Len(events) < MaxOps
    /\ \E key \in ContextKeys, value \in ContextValues :
          /\ context' = set_output(context, key, value)
          /\ events' = Append(events, SetOutputOp(key, value))
    /\ ContextUnchanged

CallClearOutputs ==
    /\ Len(events) < MaxOps
    /\ context' = clear_outputs(context)
    /\ events' = Append(events, ClearOutputsOp)
    /\ ContextUnchanged

CallVariables ==
    /\ Len(events) < MaxOps
    /\ context' = context
    /\ events' = Append(events, VariablesOp(variables(context)))
    /\ ContextUnchanged

ContextNext == CallWithInput \/ CallSetOutput \/ CallClearOutputs \/ CallVariables

ContextSpec == ContextInit /\ [][ContextNext]_vars

\* ------------------------------------------------ calculate_delay on its own
\* longest run of consecutive attempt numbers explored
MaxCalls == 34

RetryConfig_ns(i, m, b) ==
    [max_retries |-> MaxRetries, initial_delay |-> i, max_delay |-> m, backoff |-> b,
     retryable_errors |-> DefaultRetryables]

\* the configurations of the crate's tests under each strategy, the default
\* max_delay with a 20 s and with a 1 ns initial_delay
DelayConfigs ==
    { RetryConfig_ns(from_millis_ns(WFromInt(100)), from_secs_ns(10), b) :
          b \in BackoffStrategies }
    \cup { RetryConfig_ns(from_secs_ns(20), from_secs_ns(10), b) : b \in BackoffStrategies }
    \cup { RetryConfig_ns(from_secs_ns(1), from_secs_ns(5), "Exponential"),
           RetryConfig_ns(from_nanos_ns(1), from_secs_ns(10), "Exponential"),
           RetryConfig_ns(from_nanos_ns(1), from_secs_ns(10), "ExponentialJitter") }

\* first attempt numbers: 1, and the last one that fits a u32
FirstAttempts == {<<1>>, U32Max}

\* a calculate_delay call and what it returned
DelayCall(attempt, jitter, returned) ==
    [h |-> "calculate_delay", attempt |-> attempt, jitter |-> jitter,
     returned |-> returned]

DelayInit ==
    /\ skill \in {sk \in Skills : Len(sk.steps) = 0}
    /\ \E t \in TimeoutConfigs, rc \in DelayConfigs :
          /\ t.skill_timeout = 300000
          /\ t.timeout_action = "Fail"
          /\ context = ExecutionContext(NoValues, [timeout |-> t, retry |-> rc])
    /\ attempts \in FirstAttempts
    /\ delay = <<>>
    /\ pc = "idle"
    /\ index = 0
    /\ tool_call = None
    /\ step_results = <<>>
    /\ events = <<>>
    /\ now = 0
    /\ deadline = 0
    /\ step_start = 0
    /\ inner = None
    /\ result = None
    /\ others = <<>>

\* calculate_delay(&config.retry, attempts), then the next attempt number;
\* events keeps the last two calls
CallCalculateDelay ==
    /\ index < MaxCalls
    /\ \E jitter \in JitterDraws_ns(config.retry, attempts) :
          /\ delay' = calculate_delay_ns(config.retry, attempts, jitter)
          /\ events' = Append(IF events = <<>> THEN <<>> ELSE <<events[Len(events)]>>,
                              DelayCall(attempts, jitter, delay'))
    /\ attempts' = WSucc(attempts)
    /\ index' = index + 1
    /\ UNCHANGED <<skill, others, context, pc, tool_call, step_results, now, deadline, step_start,
                   inner, result>>

DelayNext == CallCalculateDelay

DelaySpec == DelayInit /\ [][DelayNext]_vars

\* --------------------------------------------- is_error_retryable on its own
\* the error texts of the crate's tests, and texts with "429" next to the
\* words of other categories
ErrorMessages ==
    { "Rate limit exceeded", "HTTP 429 Too Many Requests", "Connection timed out",
      "Request timeout", "Connection refused", "Network unreachable",
      "DNS resolution failed", "Request timed out", "Any error at all", "Random failure",
      "error 429", "429: connection reset", "code 4290", "HTTP 503", "Bad Gateway",
      "TOO MANY REQUESTS", "" }

\* every combination of categories, the empty one included
RetryableSets == SUBSET RetryableErrorKinds

\* an is_error_retryable call and what it returned
RetryableCall(error, returned) ==
    [h |-> "is_error_retryable", error |-> error, returned |-> returned]

RetryableInit ==
    /\ skill \in {sk \in Skills : Len(sk.steps) = 0}
    /\ \E t \in TimeoutConfigs, r \in RetryableSets :
          /\ t.skill_timeout = 300000
          /\ t.timeout_action = "Fail"
          /\ context = ExecutionContext(NoValues,
                [timeout |-> t, retry |-> RetryConfig(MaxRetries, "Fixed", r)])
    /\ inner \in {Err(m) : m \in ErrorMessages}
    /\ pc = "idle"
    /\ index = 0
    /\ attempts = 0
    /\ tool_call = None
    /\ step_results = <<>>
    /\ events = <<>>
    /\ now = 0
    /\ deadline = 0
    /\ step_start = 0
    /\ delay = 0
    /\ result = None
    /\ others = <<>>

\* is_error_retryable(&error, &config.retry)
CallIsErrorRetryable ==
    /\ pc = "idle"
    /\ events' = Append(events, RetryableCall(inner.e, is_error_retryable(inner.e, config.retry)))
    /\ pc' = "done"
    /\ UNCHANGED <<skill, others, context, index, attempts, tool_call, step_results, now, deadline,
                   step_start, delay, inner, result>>

RetryableNext == CallIsErrorRetryable

RetryableSpec == RetryableInit /\ [][RetryableNext]_vars

\* ------------------------------- two executions against the same Transport
TwiceSkills ==
    { [name |-> "skill",
       steps |-> [i \in 1..Len(f) |->
                    SkillStep(StepNames[i], StepArguments(i), f[i], None, None)]] :
      f \in UNION { [1..n -> BOOLEAN] : n \in 1..MaxSteps } }

\* retry_all_errors() with a jitter that is not hidden by max_delay, and
\* skill timeouts that some of the jitter draws overrun
TwiceConfigs ==
    [timeout : [skill_timeout : {14, 28, 300000}, step_timeout : {10}, tool_timeout : {50},
                timeout_action : {"Skip"}],
     retry : { [RetryConfig(MaxRetries, "ExponentialJitter", {"All"})
                   EXCEPT !.initial_delay = 4, !.max_delay = 100] }]

TwiceInit ==
    /\ skill \in TwiceSkills
    /\ \E cfg \in TwiceConfigs : context = ExecutionContext(Inputs, cfg)
    /\ NotStarted

\* the Transport has given the same answer, after the same time, to every call
AnswersIdentical ==
    \A j, k \in {i \in 1..Len(events) : events[i].h = "result"} :
        events[j].outcome = events[k].outcome /\ events[j].ms = events[k].ms

\* what the second execution leaves of the first one's history: how it ended,
\* and the Transport's last answer
FirstRun(evs) ==
    LET results == SelectSeq(evs, LAMBDA e : e.h = "result")
    IN  SelectSeq(evs, LAMBDA e : e.h \in {"skill_elapsed", "after_skill"})
        \o (IF results = <<>> THEN <<>> ELSE <<results[Len(results)]>>)

\* execute() is called a second time, with a fresh ExecutionContext holding the
\* same inputs and config; the clock is read from this call on
ExecuteAgain ==
    /\ pc = "done"
    /\ Len(SelectSeq(events, LAMBDA e : e.h = "after_skill")) = 1
    /\ events' = FirstRun(events)
    /\ now' = 0
    /\ deadline' = 0
    /\ step_start' = 0
    /\ context' = ExecutionContext(context.inputs, context.config)
    /\ pc' = "idle"
    /\ index' = 0
    /\ attempts' = 0
    /\ tool_call' = None
    /\ step_results' = <<>>
    /\ delay' = 0
    /\ inner' = None
    /\ UNCHANGED <<skill, others, result>>

\* the skill timeout cuts a call short only if the Transport's answer, the
\* same as to every other call, would have come after the deadline
CutShortByLatency ==
    (pc = "await_call" /\ events' = Append(events, SkillElapsed)) =>
        \A k \in {i \in 1..Len(events) : events[i].h = "result"} :
            now + events[k].ms > deadline

TwiceNext == (Next \/ ExecuteAgain) /\ AnswersIdentical' /\ CutShortByLatency

TwiceSpec == TwiceInit /\ [][TwiceNext]_vars

\* ------------------------------- with_timeout
TimeoutError_Timeout(duration, label) ==
    [t |-> "Timeout", duration |-> duration, context |-> label]

TimeoutError_ExecutionError(e) == [t |-> "ExecutionError", e |-> e]

\* a future that resolves to output after ms milliseconds
Future(output, ms) == [output |-> output, ms |-> ms]

\* tokio::time::timeout(duration, future).await: the future is polled before
\* the timer, so a future that is ready at the deadline still wins
tokio_timeout(duration, future) ==
    IF future.ms <= duration THEN Ok(future.output) ELSE Err("elapsed")

\* mutant: an error of the operation is reported as a timeout
with_timeout_ErrAsTimeout(duration, label, future) ==
    LET polled == tokio_timeout(duration, future)
    IN  IF polled.ok /\ polled.v.ok THEN Ok(polled.v.v)
        ELSE Err(TimeoutError_Timeout(duration, label))

with_timeout(duration, label, future) ==
    LET polled == tokio_timeout(duration, future)
    IN  IF polled.ok
        THEN IF polled.v.ok THEN Ok(polled.v.v)
             ELSE Err(TimeoutError_ExecutionError(polled.v.e))
        ELSE Err(TimeoutError_Timeout(duration, label))

TimeoutBudgets == {0, 50, 1000}

TimeoutLabels == {"test operation", "slow operation"}

Futures ==
    { Future(o, ms) : o \in {Ok("success"), Ok("data"), Err("not found"), Err("refused")},
                      ms \in {0, 5, 50, 100, 10000} }

\* tool_call holds the arguments of the call, delay the budget
WithTimeoutInit ==
    /\ skill \in {sk \in Skills : Len(sk.steps) = 0}
    /\ context \in {ExecutionContext(NoValues, cfg) : cfg \in TwiceConfigs}
    /\ config.timeout.skill_timeout = 300000
    /\ delay \in TimeoutBudgets
    /\ tool_call \in {Some([context |-> l, future |-> f]) : l \in TimeoutLabels, f \in Futures}
    /\ pc = "idle"
    /\ index = 0
    /\ attempts = 0
    /\ step_results = <<>>
    /\ events = <<>>
    /\ now = 0
    /\ deadline = 0
    /\ step_start = 0
    /\ inner = None
    /\ result = None
    /\ others = <<>>

\* with_timeout is called: the timer is armed and the future polled
CallWithTimeout ==
    /\ pc = "idle"
    /\ deadline' = now + delay
    /\ step_start' = now
    /\ pc' = "await_call"
    /\ UNCHANGED <<skill, others, context, index, attempts, tool_call, step_results, events, now,
                   delay, inner, result>>

\* the future resolves before the timer has woken the task
FutureResolves ==
    /\ pc = "await_call"
    /\ now + tool_call.v.future.ms <= deadline
    /\ now' = now + tool_call.v.future.ms
    /\ result' = with_timeout(delay, tool_call.v.context, tool_call.v.future)
    /\ pc' = "done"
    /\ UNCHANGED <<skill, others, context, index, attempts, tool_call, step_results, events,
                   deadline, step_start, delay, inner>>

\* the timer wakes the task while the future is still pending
TimerElapses ==
    /\ pc = "await_call"
    /\ now + tool_call.v.future.ms > deadline
    /\ now' = deadline
    /\ result' = with_timeout(delay, tool_call.v.context, tool_call.v.future)
    /\ pc' = "done"
    /\ UNCHANGED <<skill, others, context, index, attempts, tool_call, step_results, events,
                   deadline, step_start, delay, inner>>

WithTimeoutNext == CallWithTimeout \/ FutureResolves \/ TimerElapses

WithTimeoutSpec == WithTimeoutInit /\ [][WithTimeoutNext]_vars

\* ------------------------------- with_retry
\* mutant: Exhausted reports the retries, not the attempts
RetryError_Exhausted_CountsRetries(attempt, last_error) ==
    [t |-> "Exhausted", attempts |-> attempt - 1, last_error |-> last_error]

RetryError_Exhausted(attempt, last_error) ==
    [t |-> "Exhausted", attempts |-> attempt, last_error |-> last_error]

RetryError_NotRetryable(e) == [t |-> "NotRetryable", e |-> e]

is_exhausted(retry_error) == retry_error.t = "Exhausted"

\* the errors the operation produces
OperationErrors == {"transient error", "persistent error", "non-retryable error"}

\* tool_call holds the is_retryable argument, as the set of errors it accepts
WithRetryInit ==
    /\ skill \in {sk \in Skills : Len(sk.steps) = 0}
    /\ \E t \in TimeoutConfigs, m \in 0..MaxRetries, b \in {"Fixed", "Exponential"} :
          /\ t.skill_timeout = 300000
          /\ t.timeout_action = "Fail"
          /\ context = ExecutionContext(NoValues,
                [timeout |-> t, retry |-> RetryConfig(m, b, {"All"})])
    /\ tool_call \in {Some([is_retryable |-> r]) : r \in SUBSET OperationErrors}
    /\ pc = "idle"
    /\ index = 0
    /\ attempts = 0
    /\ step_results = <<>>
    /\ events = <<>>
    /\ now = 0
    /\ deadline = 0
    /\ step_start = 0
    /\ delay = 0
    /\ inner = None
    /\ result = None
    /\ others = <<>>

OperationCalled == [h |-> "operation"]

\* with_retry: let mut attempt = 0; loop { match operation().await
CallWithRetry ==
    /\ pc = "idle"
    /\ events' = Append(events, OperationCalled)
    /\ pc' = "await_call"
    /\ UNCHANGED <<skill, others, context, index, attempts, tool_call, step_results, now, deadline,
                   step_start, delay, inner, result>>

\* with_retry: Ok(result) => return Ok(result)
OperationSucceeds ==
    /\ pc = "await_call"
    /\ inner' = Ok("success")
    /\ result' = Ok("success")
    /\ pc' = "done"
    /\ UNCHANGED <<skill, others, context, index, attempts, tool_call, step_results, events, now,
                   deadline, step_start, delay>>

\* with_retry: Err(e) => attempt += 1, then the exhaustion test, then the
\* is_retryable test, then calculate_delay
OperationFails ==
    /\ pc = "await_call"
    /\ \E e \in OperationErrors :
          /\ inner' = Err(e)
          /\ attempts' = attempts + 1
          /\ IF attempts' > config.retry.max_retries
             THEN /\ result' = Err(RetryError_Exhausted(attempts', e))
                  /\ pc' = "done"
                  /\ delay' = delay
             ELSE IF e \notin tool_call.v.is_retryable
             THEN /\ result' = Err(RetryError_NotRetryable(e))
                  /\ pc' = "done"
                  /\ delay' = delay
             ELSE /\ \E jitter \in JitterDraws(config.retry, attempts') :
                        delay' = calculate_delay(config.retry, attempts', jitter)
                  /\ pc' = "sleeping"
                  /\ result' = result
    /\ UNCHANGED <<skill, others, context, index, tool_call, step_results, events, now, deadline,
                   step_start>>

\* with_retry: tokio::time::sleep(delay).await, then the loop calls operation()
RetrySleepEnds ==
    /\ pc = "sleeping"
    /\ now' = now + delay
    /\ events' = Append(events, OperationCalled)
    /\ pc' = "await_call"
    /\ UNCHANGED <<skill, others, context, index, attempts, tool_call, step_results, deadline,
                   step_start, delay, inner, result>>

WithRetryNext == CallWithRetry \/ OperationSucceeds \/ OperationFails \/ RetrySleepEnds

WithRetrySpec == WithRetryInit /\ [][WithRetryNext]_vars

\* ------------------------------- two executions on one executor
\* DefaultSkillExecutor holds the Transport and the hooks and nothing else;
\* what one execute() call works on is its arguments and its locals
Frame ==
    [skill |-> skill, context |-> context, pc |-> pc, index |-> index,
     attempts |-> attempts, tool_call |-> tool_call, step_results |-> step_results,
     events |-> events, now |-> now, deadline |-> deadline, step_start |-> step_start,
     delay |-> delay, inner |-> inner, result |-> result]

\* an execute() call that has not been polled yet
FreshFrame(sk, ins, cfg) ==
    [skill |-> sk, context |-> ExecutionContext(ins, cfg), pc |-> "idle", index |-> 0,
     attempts |-> 0, tool_call |-> None, step_results |-> <<>>, events |-> <<>>,
     now |-> 0, deadline |-> 0, step_start |-> 0, delay |-> 0, inner |-> None,
     result |-> None]

\* mutant: both calls were handed the same ExecutionContext
Resume_SharedContext(f) ==
    /\ skill' = f.skill
    /\ context' = context
    /\ pc' = f.pc
    /\ index' = f.index
    /\ attempts' = f.attempts
    /\ tool_call' = f.tool_call
    /\ step_results' = f.step_results
    /\ events' = f.events
    /\ now' = f.now
    /\ deadline' = f.deadline
    /\ step_start' = f.step_start
    /\ delay' = f.delay
    /\ inner' = f.inner
    /\ result' = f.result

\* the runtime polls the call whose frame is f
Resume(f) ==
    /\ skill' = f.skill
    /\ context' = f.context
    /\ pc' = f.pc
    /\ index' = f.index
    /\ attempts' = f.attempts
    /\ tool_call' = f.tool_call
    /\ step_results' = f.step_results
    /\ events' = f.events
    /\ now' = f.now
    /\ deadline' = f.deadline
    /\ step_start' = f.step_start
    /\ delay' = f.delay
    /\ inner' = f.inner
    /\ result' = f.result

OtherInputs == [query |-> JStr("go")]

ConcurrentConfigs ==
    [timeout : [skill_timeout : {14, 300000}, step_timeout : {10}, tool_timeout : {50},
                timeout_action : {"Fail", "Skip"}],
     retry : {RetryConfig(MaxRetries, "Exponential", {"All"})}]

\* two calls, each with its own skill and its own ExecutionContext
ConcurrentInit ==
    /\ \E cfg \in ConcurrentConfigs :
          /\ context = ExecutionContext(Inputs, cfg)
          /\ \E sk \in {t \in TwiceSkills : \A i \in 1..Len(t.steps) :
                                               t.steps[i].continue_on_error} :
                others = <<FreshFrame(sk, OtherInputs, cfg)>>
    /\ skill \in TwiceSkills
    /\ pc = "idle"
    /\ index = 0
    /\ attempts = 0
    /\ tool_call = None
    /\ step_results = <<>>
    /\ events = <<>>
    /\ now = 0
    /\ deadline = 0
    /\ step_start = 0
    /\ delay = 0
    /\ inner = None
    /\ result = None

\* the running call is suspended at an .await, or has not started, or has
\* returned, and the runtime polls the other one
Switch ==
    /\ Len(others) = 1
    /\ pc \in {"idle", "await_call", "sleeping", "done"}
    /\ others' = <<Frame>>
    /\ Resume(others[1])

\* both calls have returned; the call whose frame is current is made once
\* more, alone, with a fresh ExecutionContext holding the same inputs and config
RunAlone ==
    /\ Len(others) = 1
    /\ pc = "done"
    /\ others[1].pc = "done"
    /\ others' = <<others[1], Frame>>
    /\ context' = ExecutionContext(context.inputs, context.config)
    /\ pc' = "idle"
    /\ index' = 0
    /\ attempts' = 0
    /\ tool_call' = None
    /\ step_results' = <<>>
    /\ events' = <<>>
    /\ now' = 0
    /\ deadline' = 0
    /\ step_start' = 0
    /\ delay' = 0
    /\ inner' = None
    /\ result' = None
    /\ skill' = skill

\* the answers the Transport has given so far, to any call of any execution
AnsweredIn(evs) ==
    { <<evs[i].outcome, evs[i].ms>> : i \in {j \in 1..Len(evs) : evs[j].h = "result"} }

Answered == AnsweredIn(events) \cup UNION { AnsweredIn(others[i].events) : i \in 1..Len(others) }

\* the Transport answers every call alike, and a call is cut short by the
\* skill timeout only if that answer would have come after the deadline
SameTransport ==
    /\ Cardinality(Answered') <= 1
    /\ (pc = "await_call" /\ Len(events') > Len(events)
                           /\ events'[Len(events) + 1] = SkillElapsed) =>
           \A r \in Answered : now + r[2] > deadline

ConcurrentNext == (Next \/ Switch \/ RunAlone) /\ SameTransport

ConcurrentSpec == ConcurrentInit /\ [][ConcurrentNext]_vars

\* ---------------------------------------------------- reading the history
N == Len(skill.steps)
EventIdx == 1..Len(events)
StepHooks == {"before_step", "after_step", "on_retry", "on_timeout"}

\* positions of the Transport calls issued for a step
CallsOf(name) == {k \in EventIdx : events[k].h = "call" /\ events[k].step = name}
Called(name) == CallsOf(name) # {}

\* positions of the after_step notifications of a step
AfterStepsOf(name) == {k \in EventIdx : events[k].h = "after_step" /\ events[k].step = name}
Completed(name) == AfterStepsOf(name) # {}
FailedTerminally(name) == \E k \in AfterStepsOf(name) : ~events[k].result.success
Succeeded(name) == \E k \in AfterStepsOf(name) : events[k].result.success

\* the step-level errors (RetryExhausted, StepTimeout) reported for a step
StepErrors(name) ==
    { events[k].error : k \in { j \in EventIdx :
          /\ events[j].h = "on_error"
          /\ events[j].error.type \in {"RetryExhausted", "StepTimeout"}
          /\ events[j].error.step = name } }

Returned == pc = "done"
timeout_action == config.timeout.timeout_action
ResultNames(r) == [i \in 1..Len(r.step_results) |-> r.step_results[i][1]]
DeclaredNames(n) == [i \in 1..n |-> skill.steps[i].name]

\* ------------------------------------------------------------------ claims

C2_FailPropagatesStepError ==
    \A i \in 1..N :
        LET st == skill.steps[i]
        IN (timeout_action = "Fail" /\ ~st.continue_on_error /\ FailedTerminally(st.name)) =>
              /\ pc \in {"finish", "done"}
              /\ \A j \in (i + 1)..N : ~Called(skill.steps[j].name)
              /\ Returned =>
                    /\ ~result.ok
                    /\ result.e.type \in {"RetryExhausted", "StepTimeout"}
                    /\ result.e.step = st.name
                    /\ StepErrors(st.name) = {result.e}

\* C2 witness: step1 of two fails under Fail, execute() returned its error
C2_Witness ==
    /\ Returned
    /\ N = 2
    /\ timeout_action = "Fail"
    /\ ~skill.steps[1].continue_on_error
    /\ FailedTerminally("step1")
    /\ ~result.ok
    /\ result.e.step = "step1"

\* C3: under timeout_action=Partial, a terminal failure of a step with
\* continue_on_error=false makes execute() return Ok(success=false) whose error
\* is the step error's text, without output, with exactly the entries of the
\* earlier steps; no later step is called.
C3_PartialStopsWithAccumulated ==
    \A i \in 1..N :
        LET st == skill.steps[i]
        IN (timeout_action = "Partial" /\ ~st.continue_on_error /\ FailedTerminally(st.name)) =>
              /\ pc \in {"finish", "done"}
              /\ \A j \in (i + 1)..N : ~Called(skill.steps[j].name)
              /\ Returned =>
                    /\ result.ok
                    /\ ~result.v.success
                    /\ \E e \in StepErrors(st.name) :
                          result.v.error = Some(SkillErrorDisplay(e))
                    /\ result.v.output = None
                    /\ ResultNames(result.v) = DeclaredNames(i - 1)
                    /\ result.v.step_results = step_results

\* C3 witness: step2 fails under Partial after step1 completed; one entry is returned
C3_Witness ==
    /\ Returned
    /\ N = 2
    /\ timeout_action = "Partial"
    /\ ~skill.steps[2].continue_on_error
    /\ FailedTerminally("step2")
    /\ result.ok
    /\ Len(result.v.step_results) = 1

\* C4: under timeout_action=Skip, a terminal failure (timeout or transport
\* error) of a step with continue_on_error=false is recorded as a failed entry
\* and the next declared step is started.
C4_SkipRecordsAndProceeds ==
    \A i \in 1..N :
        LET st == skill.steps[i]
        IN (timeout_action = "Skip" /\ ~st.continue_on_error /\ FailedTerminally(st.name)) =>
              /\ Len(step_results) >= i
              /\ step_results[i][1] = st.name
              /\ ~is_success(step_results[i][2])
              /\ \E e \in StepErrors(st.name) :
                    step_results[i][2] = ToolResult_failure(SkillErrorDisplay(e))
              /\ (i < N /\ ~(pc = "for_step" /\ index = i)) =>
                     Called(skill.steps[i + 1].name)
              /\ (i = N /\ Returned) => (result.ok /\ Len(result.v.step_results) = N)

\* C4 witness: step1 timed out under Skip and step2 was still called
C4_Witness ==
    /\ N = 2
    /\ timeout_action = "Skip"
    /\ ~skill.steps[1].continue_on_error
    /\ \E e \in StepErrors("step1") : e.type = "StepTimeout"
    /\ Called("step2")

\* the declared step of that name (names are unique within a skill)
StepOf(name) == CHOOSE st \in {skill.steps[i] : i \in 1..N} : st.name = name

\* positions of the attempt outcomes of a step
ResultsOf(name) == {k \in EventIdx : events[k].h = "result" /\ events[k].step = name}

\* the step was started by execute_steps
Started(name) == \E k \in EventIdx : events[k].h = "before_step" /\ events[k].step = name

\* the attempt outcome at position k is a failure the retry policy would retry
RetryableFailureAt(k, rc) ==
    \/ /\ events[k].outcome.kind = "err"
       /\ IsRetryable(CoreErrorDisplay(events[k].outcome.e), rc)
    \/ /\ events[k].outcome.kind = "elapsed"
       /\ "Timeout" \in rc.retryable_errors

\* the delays calculate_delay may return for an attempt, over all jitter draws
Delays(rc, n) == {calculate_delay(rc, n, j) : j \in JitterDraws(rc, n)}

C8_ErrOnlyUnderFail ==
    Returned =>
        LET skill_timed_out == \E k \in EventIdx : events[k].h = "skill_elapsed"
            hard_failure ==
                \E i \in 1..N : /\ ~skill.steps[i].continue_on_error
                                /\ FailedTerminally(skill.steps[i].name)
        IN /\ ~result.ok =>
                /\ config.timeout.timeout_action = "Fail"
                /\ \/ skill_timed_out /\ result.e.type = "SkillTimeout"
                   \/ \E i \in 1..N :
                         /\ ~skill.steps[i].continue_on_error
                         /\ FailedTerminally(skill.steps[i].name)
                         /\ result.e \in StepErrors(skill.steps[i].name)
           /\ ~(config.timeout.timeout_action = "Fail" /\ (skill_timed_out \/ hard_failure))
                => result.ok

\* C8 witness: the skill-level timeout expired under Skip and execute() returned Ok
C8_Witness ==
    /\ Returned
    /\ config.timeout.timeout_action = "Skip"
    /\ \E k \in EventIdx : events[k].h = "skill_elapsed"
    /\ result.ok
    /\ ~result.v.success

\* positions of the events of one hook
HookIdx(h) == {k \in EventIdx : events[k].h = h}

\* C9: before_skill fires once, before any step-level hook (before_step,
\* after_step, on_retry, on_timeout); after_skill fires exactly once per
\* execute() call, after every step-level hook, whatever the outcome; it
\* receives the returned SkillResult on Ok and a synthesized success=false
\* result carrying the error text on Err.
C9_HooksBracketed ==
    /\ events # <<>> => events[1] = BeforeSkill
    /\ Cardinality(HookIdx("before_skill")) <= 1
    /\ \A k \in EventIdx : events[k].h \in StepHooks =>
           \E j \in 1..(k - 1) : events[j].h = "before_skill"
    /\ Cardinality(HookIdx("after_skill")) = IF Returned THEN 1 ELSE 0
    /\ Returned =>
          LET last == events[Len(events)]
          IN /\ last.h = "after_skill"
             /\ \A k \in EventIdx : events[k].h \in StepHooks => k < Len(events)
             /\ IF result.ok
                THEN last.result = result.v
                ELSE /\ ~last.result.success
                     /\ last.result.step_results = <<>>
                     /\ last.result.output = None
                     /\ last.result.error = Some(SkillErrorDisplay(result.e))

\* C9 witness: execute() returned Err after a step was retried, and after_skill
\* was the last notification
C9_Witness ==
    /\ Returned
    /\ ~result.ok
    /\ HookIdx("on_retry") # {}
    /\ HookIdx("after_step") # {}
    /\ events[Len(events)].h = "after_skill"

\* C10: when execute() returns Ok: if the last declared step succeeded, the
\* result has success=true and its output is that step's output data; in
\* every other case (last step failed and was continued or skipped, Partial
\* stop, skill-level timeout, no steps) the output is absent.
C10_OutputIsLastStepData ==
    (Returned /\ result.ok) =>
        IF N > 0 /\ Succeeded(skill.steps[N].name)
        THEN /\ result.v.success
             /\ \E k \in AfterStepsOf(skill.steps[N].name) :
                   result.v.output = events[k].result.output
             /\ \E k \in ResultsOf(skill.steps[N].name) :
                   /\ events[k].outcome.kind = "ok"
                   /\ result.v.output = events[k].outcome.v.data
        ELSE result.v.output = None

\* C10 witness: two steps, the last one succeeded with data, which is the output
C10_Witness ==
    /\ Returned
    /\ N = 2
    /\ FailedTerminally("step1")
    /\ Succeeded("step2")
    /\ result.ok
    /\ result.v.success
    /\ result.v.output = Some(JObj(<< <<"value", JNum(42)>> >>))

\* the output a succeeded step left in the context: its data, Null when it had none
OutputOf(name) ==
    LET k == CHOOSE j \in AfterStepsOf(name) : events[j].result.success
        output == events[k].result.output
    IN IF output.some THEN output.v ELSE JNull

\* inputs plus the output of every step before the i-th that succeeded in this run
VariablesBefore(i) ==
    LET earlier == {skill.steps[j].name : j \in {m \in 1..(i - 1) : Succeeded(skill.steps[m].name)}}
    IN [k \in (DOMAIN context.inputs) \cup earlier |->
          IF k \in earlier THEN OutputOf(k) ELSE context.inputs[k]]

\* the call recorded at position k carries the arguments of its step substituted
\* against the inputs and the outputs of the earlier steps that succeeded
CallArgumentsResolved(k) ==
    LET i == CHOOSE j \in 1..N : skill.steps[j].name = events[k].step
        st == skill.steps[i]
        bound == VariablesBefore(i)
    IN /\ \E order \in IterationOrders(DOMAIN bound) :
              events[k].arguments = substitute_value(st.arguments, bound, order)
       /\ ( /\ st.arguments = JObj(<< <<"input", JStr("{{step1}}")>> >>)
            /\ Succeeded("step1") )
          => events[k].arguments = JObj(<< <<"input", OutputOf("step1")>> >>)

Nested == CurStep.arguments.o[1][2].t = "arr"

\* the string of an argument tree built by ArgTree, and what took its place
ArgLeaf(tree) == IF Nested THEN tree.o[1][2].a[1] ELSE tree.o[1][2]

RECURSIVE InterpolateOnce(_, _)
\* s with every placeholder of a bound variable replaced by the variable's
\* display form, in one pass from left to right
InterpolateOnce(s, bound) ==
    IF Len(s) = 0 THEN ""
    ELSE LET hits == {k \in DOMAIN bound : starts_with(s, Placeholder(k))}
         IN IF hits # {}
            THEN LET k == CHOOSE x \in hits : TRUE
                 IN Replacement(bound[k])
                    \o InterpolateOnce(SubSeq(s, Len(Placeholder(k)) + 1, Len(s)), bound)
            ELSE SubSeq(s, 1, 1) \o InterpolateOnce(SubSeq(s, 2, Len(s)), bound)

\* C12: for a variable v bound to V, a string that after trimming is exactly
\* "{{v}}" is resolved to V itself, its JSON type preserved; a string in which
\* "{{v}}" is embedded among other text is resolved to the string in which each
\* occurrence is replaced by V's display form, never to a non-string value.
C12_WholeIsRawEmbeddedIsText ==
    (Len(events) > 0 /\ events[Len(events)].h = "call") =>
        LET s == ArgLeaf(CurStep.arguments).s
            r == ArgLeaf(events[Len(events)].arguments)
            bound == variables(context)
        IN \A v \in DOMAIN bound :
              /\ trim(s) = Placeholder(v) => r = bound[v]
              /\ (Contains(s, Placeholder(v)) /\ trim(s) # Placeholder(v)) =>
                    /\ r.t = "str"
                    /\ r = JStr(InterpolateOnce(s, bound))

\* the variable names the argument strings refer to
PlaceholderNames == {"a", "b", "missing"}

RECURSIVE Occurrences(_, _)
\* number of non-overlapping occurrences of w in s
Occurrences(s, w) ==
    IF Len(s) < Len(w) THEN 0
    ELSE IF SubSeq(s, 1, Len(w)) = w
    THEN 1 + Occurrences(SubSeq(s, Len(w) + 1, Len(s)), w)
    ELSE Occurrences(SubSeq(s, 2, Len(s)), w)

\* C13: a placeholder {{name}} whose name is not a key of variables() is left
\* verbatim in the resolved argument: a string that is that placeholder alone
\* is resolved to itself, and a string that embeds it is resolved to a string
\* that still holds every occurrence; substitution gives no error and the step
\* is started and called with that argument.
C13_UnboundPlaceholderKept ==
    /\ pc = "await_call" =>
          /\ events[Len(events)].h = "call"
          /\ events[Len(events)].arguments = tool_call.arguments
    /\ (Len(events) > 0 /\ events[Len(events)].h = "call") =>
          LET s == ArgLeaf(CurStep.arguments).s
              r == ArgLeaf(events[Len(events)].arguments)
          IN \A name \in PlaceholderNames \ DOMAIN variables(context) :
                Contains(s, Placeholder(name)) =>
                   /\ r.t = "str"
                   /\ Occurrences(r.s, Placeholder(name)) >= Occurrences(s, Placeholder(name))
                   /\ trim(s) = Placeholder(name) => r = JStr(s)

\* C13 witness: the step was called with the embedded {{missing}} kept while the
\* {{a}} next to it was replaced
C13_Witness ==
    /\ Len(events) > 0
    /\ events[Len(events)].h = "call"
    /\ "missing" \notin DOMAIN variables(context)
    /\ ArgLeaf(CurStep.arguments) = JStr("x {{missing}} y {{a}}")
    /\ ArgLeaf(events[Len(events)].arguments) = JStr("x {{missing}} y 42")

\* the skill-level timeout expired during the step loop
SkillTimedOut == \E k \in EventIdx : events[k].h = "skill_elapsed"

\* C14: when the step loop exceeds skill_timeout and timeout_action = Fail,
\* on_error has fired with SkillTimeout{duration = skill_timeout} by the time
\* the timeout is handled, so before execute() returns, and execute() returns
\* Err of that same error.
C14_SkillTimeoutFailErr ==
    (pc \in {"finish", "done"} /\ timeout_action = "Fail" /\ SkillTimedOut) =>
        LET elapsed == CHOOSE k \in EventIdx : events[k].h = "skill_elapsed"
        IN /\ \E k \in HookIdx("on_error") :
                /\ k > elapsed
                /\ events[k].error.type = "SkillTimeout"
                /\ events[k].error.duration = config.timeout.skill_timeout
           /\ Returned =>
                /\ ~result.ok
                /\ result.e.type = "SkillTimeout"
                /\ result.e.duration = config.timeout.skill_timeout

\* C14 witness: execute() returned after its skill-level timeout expired under Fail
C14_Witness ==
    /\ Returned
    /\ timeout_action = "Fail"
    /\ SkillTimedOut
    /\ ~result.ok

C16_PerStepOverrides ==
    \A i \in 1..N :
        LET st == skill.steps[i]
            timeout == IF st.timeout_secs.some THEN st.timeout_secs.v * MsPerSec
                       ELSE config.timeout.step_timeout
            max_retries == IF st.max_retries.some THEN st.max_retries.v
                           ELSE config.retry.max_retries
        IN /\ Cardinality(CallsOf(st.name)) <= max_retries + 1
           /\ (Completed(st.name) /\ Cardinality(CallsOf(st.name)) = 1) =>
                 \A k \in AfterStepsOf(st.name) : events[k].result.duration_ms <= timeout
           /\ \A k \in EventIdx :
                 /\ (events[k].h = "on_timeout" /\ events[k].step = st.name) =>
                        events[k].duration_ms = timeout
                 /\ (events[k].h = "on_error" /\ events[k].error.type = "StepTimeout"
                        /\ events[k].error.step = st.name) =>
                        events[k].error.duration = timeout
                 /\ (events[k].h = "on_retry" /\ events[k].step = st.name) =>
                        /\ events[k].attempt <= max_retries
                        /\ RetryableFailureAt(IF events[k - 1].h = "on_timeout"
                                              THEN k - 2 ELSE k - 1, config.retry)
                        /\ events[k + 1].h = "sleep"
                        /\ events[k + 1].ms \in Delays(config.retry, events[k].attempt)

\* C16 witness: step1 overrides the timeout only and step2 the retry limit only;
\* step1 timed out after 1 s on each of max_retries + 1 calls, step2 after
\* step_timeout on each of its own (MaxRetries + 1) + 1 calls
C16_Witness ==
    /\ N = 2
    /\ skill.steps[1].timeout_secs = Some(1) /\ skill.steps[1].max_retries = None
    /\ skill.steps[2].timeout_secs = None /\ skill.steps[2].max_retries = Some(MaxRetries + 1)
    /\ Completed("step1") /\ Completed("step2")
    /\ Cardinality(CallsOf("step1")) = config.retry.max_retries + 1
    /\ Cardinality(CallsOf("step2")) = MaxRetries + 2
    /\ \E k \in EventIdx : events[k] = OnTimeout(skill.steps[1], from_secs(1))
    /\ \E k \in EventIdx : events[k] = OnTimeout(skill.steps[2], config.timeout.step_timeout)

\* C17: steps are started in declared order and never overlap: when a
\* Transport call is issued for the step declared at position j, every step
\* declared before it has reached its terminal outcome and had its after_step
\* fired, the step itself has not, and no step declared after it has been
\* started or called.
C17_StepsSequential ==
    (Len(events) > 0 /\ events[Len(events)].h = "call") =>
        \E j \in 1..N :
            /\ skill.steps[j].name = events[Len(events)].step
            /\ ~Completed(skill.steps[j].name)
            /\ \A i \in 1..(j - 1) : Completed(skill.steps[i].name)
            /\ \A i \in (j + 1)..N :
                  ~Started(skill.steps[i].name) /\ ~Called(skill.steps[i].name)

\* C17 witness: the first call of step2 is issued after step1 was retried and
\* failed terminally
C17_Witness ==
    /\ Len(events) > 0
    /\ events[Len(events)].h = "call"
    /\ events[Len(events)].step = "step2"
    /\ events[Len(events)].attempt = 1
    /\ Cardinality(CallsOf("step1")) = 2
    /\ FailedTerminally("step1")

\* positions of the operations of one kind on one key
OpsOn(h, key) == {k \in EventIdx : events[k].h = h /\ events[k].key = key}

\* position of the last clear_outputs, 0 when there was none
LastClear ==
    LET clears == {k \in EventIdx : events[k].h = "clear_outputs"}
    IN IF clears = {} THEN 0 ELSE CHOOSE k \in clears : \A j \in clears : j <= k

\* largest position of a set
Last(positions) == CHOOSE k \in positions : \A j \in positions : j <= k

\* C18: after any sequence of with_input, set_output and clear_outputs,
\* variables() returns a map whose keys are exactly the keys given to
\* with_input together with the keys given to set_output since the last
\* clear_outputs; a key among the latter maps to the value of its latest
\* set_output (outputs win over inputs, the last write wins), any other key to
\* the value of its latest with_input.
C18_VariablesIsInputsThenOutputs ==
    (Len(events) > 0 /\ events[Len(events)].h = "variables") =>
        LET returned == events[Len(events)].returned
            live(key) == {k \in OpsOn("set_output", key) : k > LastClear}
            input_keys == {key \in ContextKeys : OpsOn("with_input", key) # {}}
            output_keys == {key \in ContextKeys : live(key) # {}}
        IN /\ DOMAIN returned = input_keys \cup output_keys
           /\ \A key \in DOMAIN returned :
                 returned[key] = IF key \in output_keys
                                 THEN events[Last(live(key))].value
                                 ELSE events[Last(OpsOn("with_input", key))].value

\* C18 witness: variables() is read after an input and two outputs were written
\* under the same key, and returns the second output
C18_Witness ==
    /\ Len(events) = 4
    /\ events[1] = WithInputOp("shared", JStr("v2"))
    /\ events[2] = SetOutputOp("shared", JStr("v2"))
    /\ events[3] = SetOutputOp("shared", JStr("v1"))
    /\ events[4].h = "variables"
    /\ events[4].returned = [shared |-> JStr("v1")]

\* C19: under Exponential backoff, for every attempt >= 1,
\* calculate_delay(config, attempt + 1) = min(max_delay, 2 * calculate_delay(config, attempt)).
C19_ExponentialDoubles ==
    (Len(events) >= 2 /\ config.retry.backoff = "Exponential") =>
        events[Len(events)].returned =
            WMin(config.retry.max_delay, WMulLimb(events[Len(events) - 1].returned, 2))

BeyondEveryDuration(attempt) == Len(attempt) > 1 \/ Limb(attempt, 1) > 2 * U64Bits

\* C21: calculate_delay never exceeds max_delay; under ExponentialJitter the
\* value before capping is base + jitter with base = initial_delay * 2^(attempt-1)
\* and 0 <= jitter < base/2, so that the returned delay is at least
\* min(base, max_delay) for every draw.
C21_CappedAndJitterBounded ==
    Len(events) >= 1 =>
        LET call == events[Len(events)]
            initial_delay == config.retry.initial_delay
            max_delay == config.retry.max_delay
            jitter == from_millis_ns(call.jitter)
        IN /\ WLessEq(call.returned, max_delay)
           /\ config.retry.backoff = "ExponentialJitter" =>
                 IF BeyondEveryDuration(call.attempt)
                 THEN initial_delay # <<>> => call.returned = max_delay
                 ELSE LET base == WMul(initial_delay, WPow2(Limb(call.attempt, 1) - 1))
                      IN /\ ~WLessEq(base, WMulLimb(jitter, 2))
                         /\ call.returned = WMin(WAdd(base, jitter), max_delay)
                         /\ WLessEq(WMin(base, max_delay), call.returned)

\* the vocabulary of each category, as the specification lists it
SpecVocabulary ==
    [RateLimit |-> {"rate limit", "429", "too many requests"},
     Timeout |-> {"timeout", "timed out"},
     ServerError |-> {"500", "502", "503", "504", "internal server error", "bad gateway",
                      "service unavailable"},
     Network |-> {"connection", "network", "dns", "resolve", "unreachable"}]

\* a word of the category occurs in the text, whatever the case of its letters
Matches(error, category) ==
    \E w \in SpecVocabulary[category] : Contains(to_lowercase(error), w)

\* C22 as stated: for an error message containing "429", is_error_retryable
\* returns true if and only if retryable_errors contains RateLimit or All.
C22_RateLimitIff ==
    (Len(events) = 1 /\ Contains(events[1].error, "429")) =>
        (events[1].returned <=>
            config.retry.retryable_errors \cap {"RateLimit", "All"} # {})

\* C22, amended: for an error message containing "429", is_error_retryable
\* returns true whenever retryable_errors contains RateLimit or All; when it
\* contains neither, it returns true only if the message also contains a
\* vocabulary word of another category contained in retryable_errors.
C22_RateLimitSuffices ==
    (Len(events) = 1 /\ Contains(events[1].error, "429")) =>
        IF config.retry.retryable_errors \cap {"RateLimit", "All"} # {}
        THEN events[1].returned
        ELSE events[1].returned <=>
                \E c \in config.retry.retryable_errors : Matches(events[1].error, c)

\* C22 witness: a message with "429" and a Network word was found retryable
\* with Network as the only category
C22_Witness ==
    /\ config.retry.retryable_errors = {"Network"}
    /\ events = <<RetryableCall("429: connection reset", TRUE)>>

\* C23: is_error_retryable is true exactly when retryable_errors contains All,
\* or a category contained in retryable_errors has one of its vocabulary words
\* occurring case-insensitively in the error text; a match in a category that
\* is not enabled does not count, and nothing is retryable under an empty
\* retryable_errors.
C23_RetryableIffEnabledMatch ==
    Len(events) = 1 =>
        LET enabled == config.retry.retryable_errors
        IN /\ events[1].returned <=>
                \/ "All" \in enabled
                \/ \E c \in enabled \ {"All"} : Matches(events[1].error, c)
           /\ enabled = {} => ~events[1].returned

\* C23 witness: a rate limit message was found not retryable with Timeout as
\* the only category
C23_Witness ==
    /\ config.retry.retryable_errors = {"Timeout"}
    /\ events = <<RetryableCall("Rate limit exceeded", FALSE)>>

\* C24: the StepResult passed to after_step has retry_attempts equal to the
\* number of retries made for the step, its number of Transport calls minus
\* one, whether the step succeeded or failed terminally.
C24_RetryAttemptsCountsRetries ==
    \A k \in EventIdx :
        events[k].h = "after_step" =>
            events[k].result.retry_attempts =
                Cardinality({c \in CallsOf(events[k].step) : c < k}) - 1

\* C25: on_retry receives the 1-based number of the attempt about to be made,
\* one more than the number of calls the step has had, so the on_retry before
\* the first retry of a step receives 2.
C25_OnRetryNamesNextAttempt ==
    \A k \in EventIdx :
        events[k].h = "on_retry" =>
            events[k].attempt = Cardinality({c \in CallsOf(events[k].step) : c < k}) + 1

\* C26: no Transport call is awaited for longer than config.timeout.tool_timeout,
\* whatever step_timeout or per-step timeout_secs is in force: the time that
\* passes while a call is pending never exceeds tool_timeout.
C26_CallWithinToolTimeout ==
    [][pc = "await_call" => now' - now <= config.timeout.tool_timeout]_vars

\* what the claim compares: the success flag, and the step names with their
\* success flags, in order
Flags(r) ==
    <<r.success,
      [i \in 1..Len(r.step_results) |->
          <<r.step_results[i][1], r.step_results[i][2].success>>]>>

\* both executions have returned
BothReturned == pc = "done" /\ Cardinality(HookIdx("after_skill")) = 2

\* the SkillResult of the first execution, as after_skill received it
FirstResult ==
    events[CHOOSE k \in HookIdx("after_skill") : \A j \in HookIdx("after_skill") : k <= j].result

C29_WithTimeoutOutcomes ==
    pc = "done" =>
        LET op == tool_call.v.future
            inBudget == step_start + op.ms <= deadline
        IN  /\ (inBudget /\ op.output.ok) => result = Ok(op.output.v)
            /\ (inBudget /\ ~op.output.ok) =>
                   result = Err(TimeoutError_ExecutionError(op.output.e))
            /\ ~inBudget =>
                   /\ result = Err(TimeoutError_Timeout(now - step_start, tool_call.v.context))
                   /\ now = deadline
            /\ (result.ok \/ result.e.t = "ExecutionError") => now <= deadline
            /\ (~result.ok /\ result.e.t = "Timeout") => ~inBudget

\* C29 witness: an operation that would have failed after the budget is
\* reported as a timeout with the budget and the label
C29_Witness ==
    /\ pc = "done"
    /\ ~tool_call.v.future.output.ok
    /\ tool_call.v.future.ms > delay
    /\ delay > 0
    /\ result = Err(TimeoutError_Timeout(delay, tool_call.v.context))

\* C30: whenever the operation fails with an error for which is_retryable
\* returns false, with_retry stops without calling the operation again and
\* returns RetryError::NotRetryable (is_exhausted() = false), for every
\* RetryConfig.
C30_NotRetryableStops ==
    (inner # None /\ ~inner.ok /\ inner.e \notin tool_call.v.is_retryable) =>
        /\ pc = "done"
        /\ result = Err(RetryError_NotRetryable(inner.e))
        /\ ~is_exhausted(result.e)

C31_AtMostMaxRetriesPlusOneCalls ==
    /\ Len(events) <= config.retry.max_retries + 1
    /\ pc = "done" =>
          IF result.ok
          THEN /\ result = inner
               /\ Len(events) = attempts + 1
          ELSE inner.e \in tool_call.v.is_retryable =>
                  /\ result.e.t = "Exhausted"
                  /\ result.e.attempts = config.retry.max_retries + 1
                  /\ result.e.last_error = inner.e
                  /\ Len(events) = config.retry.max_retries + 1

\* C31 witness: every call failed with a retryable error, one retry was made,
\* and with_retry has returned Exhausted
C31_Witness ==
    /\ pc = "done"
    /\ ~result.ok
    /\ tool_call.v.is_retryable = OperationErrors
    /\ config.retry.max_retries >= 1
    /\ Len(events) = config.retry.max_retries + 1
    /\ result.e.t = "Exhausted"

\* what execute_steps and the Transport did for one step, in order
StepTrace(name) ==
    SelectSeq(events, LAMBDA e : /\ e.h \in {"before_step", "call", "result", "after_step"}
                                 /\ e.step = name)

\* before_step fires once per started step, before its first Transport call,
\* and after_step at most once, after its last attempt
StepHooksInOrder ==
    \A i \in 1..N :
        LET trace == StepTrace(skill.steps[i].name)
        IN  Len(trace) > 0 =>
               /\ trace[1].h = "before_step"
               /\ \A k \in 2..Len(trace) :
                     /\ trace[k].h # "before_step"
                     /\ trace[k].h = "after_step" => k = Len(trace)

\* C32 as stated: for each step that is started before_step fires exactly once
\* before the step's first Transport call and after_step exactly once after its
\* last attempt, so that when execute() returns the number of after_step
\* firings equals the number of before_step firings.
C32_StepHooksPaired ==
    /\ StepHooksInOrder
    /\ Returned => /\ \A i \in 1..N : Started(skill.steps[i].name) =>
                                         Cardinality(AfterStepsOf(skill.steps[i].name)) = 1
                   /\ Cardinality(HookIdx("after_step")) = Cardinality(HookIdx("before_step"))

\* C32, amended: the same, except that the step in progress when the
\* skill-level timeout expires gets no after_step; when execute() returns
\* there are as many after_step as before_step firings, or one fewer if the
\* skill-level timeout expired.
C32_StepHooksPairedUnlessCut ==
    /\ StepHooksInOrder
    /\ Returned =>
          /\ \A i \in 1..N :
                Started(skill.steps[i].name) =>
                   Cardinality(AfterStepsOf(skill.steps[i].name)) =
                      (IF SkillTimedOut /\ i = index + 1 THEN 0 ELSE 1)
          /\ Cardinality(HookIdx("before_step")) =
                Cardinality(HookIdx("after_step")) + (IF SkillTimedOut THEN 1 ELSE 0)

\* C32 witness: execute() has returned after a step that was retried and failed
\* terminally, with both hooks fired for every started step
C32_Witness ==
    /\ Returned
    /\ ~SkillTimedOut
    /\ \E k \in EventIdx : events[k].h = "on_retry"
    /\ \E k \in EventIdx : events[k].h = "after_step" /\ ~events[k].result.success
    /\ Cardinality(HookIdx("before_step")) = N
    /\ Cardinality(HookIdx("after_step")) = N
    /\ N > 1

\* positions of the on_error notifications carrying a step's terminal error
StepErrorReports(name) ==
    {k \in HookIdx("on_error") :
        /\ events[k].error.type \in {"RetryExhausted", "StepTimeout"}
        /\ events[k].error.step = name}

\* positions of the on_error notifications carrying the SkillTimeout
SkillTimeoutReports == {k \in HookIdx("on_error") : events[k].error.type = "SkillTimeout"}

\* C33: each terminal error of an execute() call (a step's RetryExhausted or
\* StepTimeout, or the SkillTimeout) is reported to the on_error hook exactly
\* once, by the time execute() has returned.
C33_OnErrorExactlyOnce ==
    Returned =>
        /\ \A i \in 1..N :
              FailedTerminally(skill.steps[i].name) =>
                 Cardinality(StepErrorReports(skill.steps[i].name)) = 1
        /\ (~result.ok /\ result.e.type = "SkillTimeout") =>
              Cardinality(SkillTimeoutReports) = 1

\* C34: with retryable_errors = {All} and attempts remaining, a step attempt
\* that times out is retried: the notification that follows on_timeout is
\* on_retry, not the after_step of a step ended with StepTimeout.
C34_AllRetriesTimeouts ==
    \A k \in HookIdx("on_timeout") :
        LET retry_config == EffectiveRetry(StepOf(events[k].step), config)
        IN  (/\ retry_config.retryable_errors = {"All"}
             /\ events[k - 1].attempt <= retry_config.max_retries) =>
                events[k + 1].h = "on_retry"

\* C35: execute() treats a step as successful (StepResult.success = true
\* handed to after_step) only if the ToolResult the Transport returned for it
\* has success = true; an answer Ok(ToolResult{success = false}) is handled as
\* a step failure.
C35_SuccessNeedsToolSuccess ==
    \A k \in HookIdx("after_step") :
        events[k].result.success =>
            /\ events[k - 1].h = "result"
            /\ events[k - 1].outcome.kind = "ok"
            /\ is_success(events[k - 1].outcome.v)

\* C36: every execute() call eventually returns (Ok or Err), whatever the
\* Transport does, including a Transport that never answers or that always
\* fails with retryable errors.
C36_ExecuteReturns == <>(pc = "done")

\* C36 witness: execute() has returned although no Transport call was ever
\* answered: every attempt ran into the step timeout and was retried until
\* the skill-level timeout cut the run
C36_Witness ==
    /\ pc = "done"
    /\ SkillTimedOut
    /\ \E k \in EventIdx : events[k].h = "on_retry"
    /\ \A k \in EventIdx : events[k].h = "result" => events[k].outcome = Elapsed

\* C37: a Transport call abandoned by a step timeout or by the skill-level
\* timeout is never observed afterwards: what is recorded for a step in
\* step_results and in the context outputs is the answer to the step's last
\* call, never that of an attempt that timed out, and after the skill-level
\* timeout has expired no Transport call is issued, no step-level hook fires
\* and nothing is recorded.
C37_AbandonedCallNeverObserved ==
    /\ \A a \in HookIdx("after_step") :
          events[a].result.success =>
             /\ events[a - 1].h = "result"
             /\ events[a - 2].h = "call"
             /\ events[a - 2].attempt = events[a - 1].attempt
             /\ \A k \in ResultsOf(events[a].step) :
                   events[k].outcome = Elapsed => events[k].attempt < events[a - 1].attempt
             /\ \A c \in CallsOf(events[a].step) : c <= a - 2
    /\ \A name \in DOMAIN context.outputs :
          Succeeded(name) /\ context.outputs[name] = OutputOf(name)
    /\ \A i \in 1..Len(step_results) : Completed(step_results[i][1])
    /\ \A k \in HookIdx("skill_elapsed") :
          \A j \in (k + 1)..Len(events) : events[j].h \notin StepHooks \cup {"call"}

\* C37 witness: step1 succeeded, a later call was cut by the skill-level
\* timeout while in flight, and execute() has returned
C37_Witness ==
    /\ pc = "done"
    /\ DOMAIN context.outputs # {}
    /\ \E k \in EventIdx : /\ k < Len(events)
                           /\ events[k].h = "call"
                           /\ events[k + 1] = SkillElapsed

\* C38: in every SkillResult returned by execute(), the step names in
\* step_results are, in order, a prefix of the skill's declared step names,
\* with exactly one entry per step; whenever success = true the prefix is the
\* whole declared list.
C38_StepResultsArePrefix ==
    (Returned /\ result.ok) =>
        LET r == result.v
        IN  /\ Len(r.step_results) <= N
            /\ ResultNames(r) = DeclaredNames(Len(r.step_results))
            /\ r.success => Len(r.step_results) = N

\* C38 witness: execute() returned a non-success SkillResult holding the first
\* step only, of a skill that declares more
C38_Witness ==
    /\ Returned
    /\ result.ok
    /\ ~result.v.success
    /\ Len(result.v.step_results) = 1
    /\ N > 1
    /\ result.v.step_results[1][1] = skill.steps[1].name

\* the Transport answered one of the step's calls with a ToolResult that
\* reports success, and the step's output is that answer's data (Null if none)
OutputIsToolSuccess(name) ==
    \E k \in ResultsOf(name) :
        /\ events[k].outcome.kind = "ok"
        /\ is_success(events[k].outcome.v)
        /\ context.outputs[name] = (IF events[k].outcome.v.data.some
                                    THEN events[k].outcome.v.data.v ELSE JNull)

\* every output belongs to a step of this skill that succeeded, and no step
\* that failed terminally has one
OutputsOfSucceededSteps ==
    /\ \A name \in DOMAIN context.outputs :
          /\ \E i \in 1..N : skill.steps[i].name = name
          /\ OutputIsToolSuccess(name)
    /\ \A i \in 1..N : FailedTerminally(skill.steps[i].name) =>
                          skill.steps[i].name \notin DOMAIN context.outputs

\* C39: execute() never changes the context's inputs, metadata or config; its
\* only context mutation is set_output(step.name, output) for steps of this
\* skill that succeeded (Null when the step returned no data), and a step that
\* fails terminally leaves the outputs map unchanged.
C39_OnlyOutputsOfSucceededSteps ==
    [][/\ context'.inputs = context.inputs
       /\ context'.metadata = context.metadata
       /\ context'.config = context.config
       /\ OutputsOfSucceededSteps']_vars

\* C40: the resolved argument tree is a function of the argument tree and the
\* variables map alone, independent of the order in which the variables are
\* visited: the arguments of the call are what every visiting order gives, and
\* text inserted for one placeholder during interpolation is never itself
\* re-scanned and replaced as a placeholder of another variable.
C40_IndependentOfVisitOrder ==
    (Len(events) > 0 /\ events[Len(events)].h = "call") =>
        LET sent == events[Len(events)].arguments
            bound == variables(context)
            s == ArgLeaf(CurStep.arguments).s
        IN /\ \A order \in IterationOrders(DOMAIN bound) :
                 sent = substitute_value(CurStep.arguments, bound, order)
           /\ ~IsWholePlaceholder(s, bound) =>
                 ArgLeaf(sent) = JStr(InterpolateOnce(s, bound))

====
